---- MODULE Spec2Model ----
(***************************************************************************)
(* The resource orchestration layer of 11-api-iaas: the domain entities,   *)
(* the file-backed repository (one pretty-printed JSON file per server)    *)
(* and the application service, invoked by concurrent callers.             *)
(*                                                                         *)
(* A file is a sequence of byte segments.  serde_json's pretty printer     *)
(* puts one field per line, so a segment is (a part of) one line: the line *)
(* and the bytes from..to of it that are in the file.  fs::write is        *)
(* File::create (open, create, truncate) followed by write_all at offset   *)
(* 0 of the writer's own descriptor: two steps.                            *)
(***************************************************************************)
EXTENDS Integers, Sequences, FiniteSets, TLC

(* ------------------------------ bounds -------------------------------- *)
NumCallers == 2
MaxUuid == 3
MaxOps == 3
MaxFaults == 1

Callers == 1..NumCallers
Uuids == 1..MaxUuid

(* ------------------------------ inputs -------------------------------- *)
NoCmd == [name |-> "", cpu |-> 0, ram |-> 0, storage |-> 0, server_id |-> 0, size_gb |-> 0]

CreateServerCommand(name, cpu, ram, storage) ==
    [NoCmd EXCEPT !.name = name, !.cpu = cpu, !.ram = ram, !.storage = storage]

AttachDiskCommand(server_id, size_gb) ==
    [NoCmd EXCEPT !.server_id = server_id, !.size_gb = size_gb]

CreateCmds == { CreateServerCommand("vm-1", 2, 4, 40), CreateServerCommand("", 0, 0, 0) }

DiskSizes == {100, 20}

(* --------------------------- domain entities -------------------------- *)
ServerStatus == {"Provisioning", "Running", "Stopped", "Terminated"}

Disk(id, size_gb) == [id |-> id, size_gb |-> size_gb]

NoServer == [id |-> 0, name |-> "", cpu_cores |-> 0, ram_gb |-> 0, storage_gb |-> 0,
             status |-> "", additional_disks |-> <<>>]

\* Mutant of ServerNew: a constant id instead of the generated one.
ServerNew_const_id(id, name, cpu, ram, storage) ==
    [id |-> 1, name |-> name, cpu_cores |-> cpu, ram_gb |-> ram, storage_gb |-> storage,
     status |-> "Provisioning", additional_disks |-> <<>>]

\* Mutant of ServerNew: the server starts with its storage as a first disk.
ServerNew_disk(id, name, cpu, ram, storage) ==
    [id |-> id, name |-> name, cpu_cores |-> cpu, ram_gb |-> ram, storage_gb |-> storage,
     status |-> "Provisioning", additional_disks |-> << Disk(id, storage) >>]

\* Mutant of ServerNew: the server starts Running.
ServerNew_running(id, name, cpu, ram, storage) ==
    [id |-> id, name |-> name, cpu_cores |-> cpu, ram_gb |-> ram, storage_gb |-> storage,
     status |-> "Running", additional_disks |-> <<>>]

\* Server::new with the value Uuid::new_v4() returned passed in as id.
ServerNew(id, name, cpu, ram, storage) ==
    [id |-> id, name |-> name, cpu_cores |-> cpu, ram_gb |-> ram, storage_gb |-> storage,
     status |-> "Provisioning", additional_disks |-> <<>>]

\* Mutant of new_v4: a value may come out again.
new_v4_repeat(used) == { id \in Uuids : \A other \in Uuids \ used : id <= other }

\* Uuid::new_v4(): a random 122-bit value, taken never to repeat.  Uuids are only
\* compared and used as file names, so which unused value comes out makes no
\* difference: the least one is taken.
new_v4(used) == { id \in Uuids \ used : \A other \in Uuids \ used : id <= other }

(* ------------------- serde_json: to_string_pretty --------------------- *)
Line(k, s, n) == [k |-> k, s |-> s, n |-> n]

RECURSIVE Digits(_)
Digits(n) == IF n < 10 THEN 1 ELSE 1 + Digits(n \div 10)

\* Number of characters of the strings the model uses.
StrLen(s) ==
    CASE s = "" -> 0
      [] s = "vm-1" -> 4
      [] s = "Running" -> 7
      [] s = "Stopped" -> 7
      [] s = "Terminated" -> 10
      [] s = "Provisioning" -> 12
      [] OTHER -> 8

\* Bytes of one line of the pretty-printed text, indentation, comma and newline included.
Width(l) ==
    CASE l.k = "{" -> 2
      [] l.k = "id" -> 48
      [] l.k = "name" -> 14 + StrLen(l.s)
      [] l.k = "cpu_cores" -> 17 + Digits(l.n)
      [] l.k = "ram_gb" -> 14 + Digits(l.n)
      [] l.k = "storage_gb" -> 18 + Digits(l.n)
      [] l.k = "status" -> 16 + StrLen(l.s)
      [] l.k = "additional_disks" -> IF l.n = 0 THEN 25 ELSE 24
      [] l.k = "disk{" -> 6
      [] l.k = "disk.id" -> 52
      [] l.k = "disk.size_gb" -> 18 + Digits(l.n)
      [] l.k = "disk}" -> 6 + l.n
      [] l.k = "]" -> 4
      [] l.k = "}" -> 1
      [] OTHER -> 1

\* Mutant of DiskLines: the size of a disk is not written.
RECURSIVE DiskLines_no_size(_, _)
DiskLines_no_size(disks, i) ==
    IF i > Len(disks) THEN <<>>
    ELSE << Line("disk{", "", 0),
            Line("disk.id", "", disks[i].id),
            Line("disk.size_gb", "", 0),
            Line("disk}", "", IF i < Len(disks) THEN 1 ELSE 0) >>
         \o DiskLines_no_size(disks, i + 1)

RECURSIVE DiskLines(_, _)
DiskLines(disks, i) ==
    IF i > Len(disks) THEN <<>>
    ELSE << Line("disk{", "", 0),
            Line("disk.id", "", disks[i].id),
            Line("disk.size_gb", "", disks[i].size_gb),
            Line("disk}", "", IF i < Len(disks) THEN 1 ELSE 0) >>
         \o DiskLines(disks, i + 1)

\* Mutant of PrettyLines: the status is always written as Provisioning.
PrettyLines_status_reset(server) ==
    << Line("{", "", 0),
       Line("id", "", server.id),
       Line("name", server.name, 0),
       Line("cpu_cores", "", server.cpu_cores),
       Line("ram_gb", "", server.ram_gb),
       Line("storage_gb", "", server.storage_gb),
       Line("status", "Provisioning", 0) >>
    \o (IF server.additional_disks = <<>>
        THEN << Line("additional_disks", "", 0) >>
        ELSE << Line("additional_disks", "", 1) >>
             \o DiskLines(server.additional_disks, 1)
             \o << Line("]", "", 0) >>)
    \o << Line("}", "", 0) >>

\* The lines serde_json::to_string_pretty(server) produces, fields in declaration order.
PrettyLines(server) ==
    << Line("{", "", 0),
       Line("id", "", server.id),
       Line("name", server.name, 0),
       Line("cpu_cores", "", server.cpu_cores),
       Line("ram_gb", "", server.ram_gb),
       Line("storage_gb", "", server.storage_gb),
       Line("status", server.status, 0) >>
    \o (IF server.additional_disks = <<>>
        THEN << Line("additional_disks", "", 0) >>
        ELSE << Line("additional_disks", "", 1) >>
             \o DiskLines(server.additional_disks, 1)
             \o << Line("]", "", 0) >>)
    \o << Line("}", "", 0) >>

Seg(l, from, to) == [line |-> l, from |-> from, to |-> to]

to_string_pretty(server) ==
    LET ls == PrettyLines(server)
    IN  [i \in 1..Len(ls) |-> Seg(ls[i], 1, Width(ls[i]))]

(* ------------------------------ bytes --------------------------------- *)
RECURSIVE ByteLen(_)
ByteLen(content) ==
    IF content = <<>> THEN 0
    ELSE (Head(content).to - Head(content).from + 1) + ByteLen(Tail(content))

\* content without its first k bytes
RECURSIVE DropBytes(_, _)
DropBytes(content, k) ==
    IF content = <<>> \/ k = 0 THEN content
    ELSE LET h == Head(content)
             w == h.to - h.from + 1
         IN  IF w <= k THEN DropBytes(Tail(content), k - w)
             ELSE << Seg(h.line, h.from + k, h.to) >> \o Tail(content)

\* the first k bytes of content
RECURSIVE TakeBytes(_, _)
TakeBytes(content, k) ==
    IF content = <<>> \/ k = 0 THEN <<>>
    ELSE LET h == Head(content)
             w == h.to - h.from + 1
         IN  IF w <= k THEN << h >> \o TakeBytes(Tail(content), k - w)
             ELSE << Seg(h.line, h.from, h.from + k - 1) >>

\* write(2) of data at offset 0 of a file holding old: the bytes of old beyond the
\* data stay in the file.
WriteAt0(old, data) == data \o DropBytes(old, ByteLen(data))

(* ---------------------- serde_json: from_str -------------------------- *)
ParseError == [ok |-> FALSE, server |-> NoServer]

BadDisks == [ok |-> FALSE, disks |-> <<>>, next |-> 0]

\* the array elements from line i on: { id, size_gb } objects separated by commas
RECURSIVE ParseDisks(_, _)
ParseDisks(ls, i) ==
    IF i + 3 > Len(ls) THEN BadDisks
    ELSE IF ~(/\ ls[i].k = "disk{"
              /\ ls[i + 1].k = "disk.id"
              /\ ls[i + 2].k = "disk.size_gb"
              /\ ls[i + 3].k = "disk}") THEN BadDisks
    ELSE LET d == Disk(ls[i + 1].n, ls[i + 2].n)
         IN  IF ls[i + 3].n = 0
             THEN [ok |-> TRUE, disks |-> << d >>, next |-> i + 4]
             ELSE LET r == ParseDisks(ls, i + 4)
                  IN  IF r.ok THEN [ok |-> TRUE, disks |-> << d >> \o r.disks, next |-> r.next]
                      ELSE BadDisks

\* serde_json::from_str::<Server>(content): one complete object and nothing after it.
from_str(content) ==
    LET n == Len(content)
        ls == [i \in 1..n |-> content[i].line]
    IN  IF \E i \in 1..n : content[i].from # 1 \/ content[i].to # Width(content[i].line)
        THEN ParseError
        ELSE IF ~(/\ n >= 9
                  /\ ls[1].k = "{"
                  /\ ls[2].k = "id"
                  /\ ls[3].k = "name"
                  /\ ls[4].k = "cpu_cores"
                  /\ ls[5].k = "ram_gb"
                  /\ ls[6].k = "storage_gb"
                  /\ ls[7].k = "status"
                  /\ ls[7].s \in ServerStatus
                  /\ ls[8].k = "additional_disks") THEN ParseError
        ELSE LET r == IF ls[8].n = 0 THEN [ok |-> ls[9].k = "}", disks |-> <<>>, next |-> 9]
                      ELSE LET p == ParseDisks(ls, 9)
                           IN  IF p.ok /\ p.next + 1 = n /\ ls[p.next].k = "]" /\ ls[n].k = "}"
                               THEN [ok |-> TRUE, disks |-> p.disks, next |-> n]
                               ELSE BadDisks
             IN  IF r.ok /\ r.next = n
                 THEN [ok |-> TRUE,
                       server |-> [id |-> ls[2].n, name |-> ls[3].s, cpu_cores |-> ls[4].n,
                                   ram_gb |-> ls[5].n, storage_gb |-> ls[6].n,
                                   status |-> ls[7].s, additional_disks |-> r.disks]]
                 ELSE ParseError

(* ------------------------------ results ------------------------------- *)
\* anyhow::Result values: Ok(server), Ok(()), Ok(None), Ok(Some(server)), Ok(vec),
\* Err(e).  An anyhow::Error is told apart by what it wraps: the message of
\* anyhow!(..), a std::io::Error or a serde_json::Error.
NoResult == [tag |-> "none", err |-> "", server |-> NoServer, list |-> <<>>]
\* Mutant of Ok: the server is returned without its name.
Ok_unnamed(server) == [NoResult EXCEPT !.tag = "Ok", !.server = [server EXCEPT !.name = ""]]
Ok(server) == [NoResult EXCEPT !.tag = "Ok", !.server = server]
OkUnit == [NoResult EXCEPT !.tag = "Unit"]
OkNone == [NoResult EXCEPT !.tag = "None"]
OkSome(server) == [NoResult EXCEPT !.tag = "Some", !.server = server]
OkList(list) == [NoResult EXCEPT !.tag = "List", !.list = list]
Err(e) == [NoResult EXCEPT !.tag = "Err", !.err = e]

NotFound == Err("Server not found")
IoError == Err("io::Error")
SerdeError == Err("serde_json::Error")

(* ------------------------------ web layer ----------------------------- *)
\* security.rs: the shared secret
API_KEY == "iaas-secret-key-123"

\* warp::header::optional::<String>("x-api-key"): the header is absent (None), or
\* holds the secret or another value.  NoRequest: the call is not an HTTP request.
NoRequest == "no request"
NoHeader == "None"
Headers == {NoHeader, "wrong-key", API_KEY}

\* The outcome of a handler: Ok(v) is the JSON reply, Err(_) is warp::reject::reject().
Reply == "reply"
Rejection == "reject()"
handler_result(result) == IF result.tag = "Err" THEN Rejection ELSE Reply

\* The status of the response.  routes attaches no recover filter, so warp renders
\* the rejection itself: reject() is 404 Not Found; a reply is 200 OK.
StatusCode(result) == IF handler_result(result) = Rejection THEN 404 ELSE 200

\* DiskResponse and ServerResponse, the bodies of the replies
DiskResponse(id, size_gb) == [id |-> id, size_gb |-> size_gb]
ServerResponse(id, name, status, disks) ==
    [id |-> id, name |-> name, status |-> status, disks |-> disks]

\* format!("{:?}", server.status): derive(Debug) writes the name of the variant
DebugStatus(status) ==
    CASE status = "Provisioning" -> "Provisioning"
      [] status = "Running" -> "Running"
      [] status = "Stopped" -> "Stopped"
      [] status = "Terminated" -> "Terminated"

\* Mutant of map_to_response: the disks are collected in reverse order.
map_to_response_rev(server) ==
    ServerResponse(server.id, server.name, DebugStatus(server.status),
                   [i \in DOMAIN server.additional_disks |->
                      LET d == server.additional_disks[Len(server.additional_disks) + 1 - i]
                      IN  DiskResponse(d.id, d.size_gb)])

\* map_to_response: id and name are moved, the status is formatted, each disk
\* becomes a DiskResponse, in order.
map_to_response(server) ==
    ServerResponse(server.id, server.name, DebugStatus(server.status),
                   [i \in DOMAIN server.additional_disks |->
                      DiskResponse(server.additional_disks[i].id,
                                   server.additional_disks[i].size_gb)])

\* An HTTP response: the status, and the JSON body, which is one ServerResponse
\* ("object"), an array of them ("array"), the object {"error": error} ("error"),
\* or nothing ("empty"); `error` is else the text of the body when it is not JSON.
\* NoResponse: none has been sent.
Response(status, kind, servers, error) ==
    [status |-> status, kind |-> kind, servers |-> servers, error |-> error]
NoResponse == Response(0, "none", <<>>, "")

\* Mutant of Responded: the rejection carries the text of the error.
Responded_leak(k, result) ==
    IF k = NoRequest \/ result.tag = "none" THEN NoResponse
    ELSE IF handler_result(result) = Rejection
    THEN Response(StatusCode(result), "empty", <<>>, result.err)
    ELSE IF result.tag = "List"
    THEN Response(StatusCode(result), "array",
                  [i \in DOMAIN result.list |-> map_to_response(result.list[i])], "")
    ELSE Response(StatusCode(result), "object", << map_to_response(result.server) >>, "")

\* The response of a handler whose port call gave `result`, to a request with
\* header k: warp::reply::json of the mapped server or servers, or the not-found
\* rejection, which warp renders as 404 with an empty body.
Responded(k, result) ==
    IF k = NoRequest \/ result.tag = "none" THEN NoResponse
    ELSE IF handler_result(result) = Rejection THEN Response(StatusCode(result), "empty", <<>>, "")
    ELSE IF result.tag = "List"
    THEN Response(StatusCode(result), "array",
                  [i \in DOMAIN result.list |-> map_to_response(result.list[i])], "")
    ELSE Response(StatusCode(result), "object", << map_to_response(result.server) >>, "")

(* ------------------------------- state -------------------------------- *)
VARIABLES
    files,      \* storage_dir: file |-> content, for the <id>.json files that exist
    issued,     \* the values Uuid::new_v4() has returned
    pc,         \* per caller: "idle", the system call it is about to make, or "done"
    op,         \* per caller: the operation it is in
    cmd,        \* per caller: the command of the operation
    srv,        \* per caller: the local `server`
    prev,       \* per caller: the server attach_disk read, before the push
    entries,    \* per caller: the directory entries list_all has still to visit
    acc,        \* per caller: the local `servers` of list_all
    res,        \* per caller: the value the last operation returned
    nops,       \* operations started
    faults,     \* filesystem errors that have occurred
    created,    \* history: the servers create_server has returned, in order
    attached,   \* history, per id: the disks of the attach_disk calls that returned Ok, in order
    stable,     \* history, per id: the server of the last save that ran undisturbed,
                \*   until the next write access to the file
    opener,     \* history, per id: the caller whose File::create was the last write access, or 0
    nsave,      \* history, per caller: calls of save in the operation
    seen,       \* history, per caller: stable[id] when it read the file
    others,     \* history, per caller: the ids other callers wrote since its operation began
    key,        \* per caller: the x-api-key header of the HTTP request it carries, if any
    last,       \* history, per file: the disk list of the last content that parsed
    failed,     \* history: the ids generated by create_server calls whose save failed
    store,      \* the abstract backend, a map id |-> Server, given each call when its
                \*   save over the files completes
    response,   \* per caller: the HTTP response sent to its request, if any
    made,       \* history, per id: the disks attach_disk calls for the id have built
    latest,     \* history, per file: the server of the last write_all that wrote bytes
                \*   since the file was last truncated, if any
    rejection,  \* the causes of the Rejection handle_rejection is given
    storage_dir,\* what the path given to JsonServerRepository::new names
    repository  \* the result of JsonServerRepository::new

vars == << files, issued, pc, op, cmd, srv, prev, entries, acc, res, nops, faults,
           created, attached, stable, opener, nsave, seen, others, key, last,
           failed, store, response, made, latest, rejection, storage_dir, repository >>

Init ==
    /\ files = << >>
    /\ issued = {}
    /\ pc = [c \in Callers |-> "idle"]
    /\ op = [c \in Callers |-> ""]
    /\ cmd = [c \in Callers |-> NoCmd]
    /\ srv = [c \in Callers |-> NoServer]
    /\ prev = [c \in Callers |-> NoServer]
    /\ entries = [c \in Callers |-> {}]
    /\ acc = [c \in Callers |-> <<>>]
    /\ res = [c \in Callers |-> NoResult]
    /\ nops = 0
    /\ faults = 0
    /\ created = <<>>
    /\ attached = [id \in Uuids |-> <<>>]
    /\ stable = [id \in Uuids |-> NoServer]
    /\ opener = [id \in Uuids |-> 0]
    /\ nsave = [c \in Callers |-> 0]
    /\ seen = [c \in Callers |-> NoServer]
    /\ others = [c \in Callers |-> {}]
    /\ key = [c \in Callers |-> NoRequest]
    /\ last = [id \in Uuids |-> <<>>]
    /\ failed = {}
    /\ store = << >>
    /\ response = [c \in Callers |-> NoResponse]
    /\ made = [id \in Uuids |-> {}]
    /\ latest = [id \in Uuids |-> NoServer]
    /\ rejection = {}
    /\ storage_dir = "dir"
    /\ repository = "Ok"

\* Callers are interchangeable: an operation starts in the lowest free slot.
Idle(c) ==
    /\ pc[c] \in {"idle", "done"}
    /\ \A d \in Callers : d < c => pc[d] \notin {"idle", "done"}
    /\ nops < MaxOps

\* Entry of operation o with command m: fresh locals (server s, entries ents, n
\* calls of save so far); the operation goes on at `next`, or has returned r
\* already (next = "done").
Begin(c, o, m, s, ents, n, next, r) ==
    /\ pc' = [pc EXCEPT ![c] = next]
    /\ op' = [op EXCEPT ![c] = o]
    /\ cmd' = [cmd EXCEPT ![c] = m]
    /\ srv' = [srv EXCEPT ![c] = s]
    /\ prev' = [prev EXCEPT ![c] = NoServer]
    /\ entries' = [entries EXCEPT ![c] = ents]
    /\ acc' = [acc EXCEPT ![c] = <<>>]
    /\ res' = [res EXCEPT ![c] = r]
    /\ response' = [response EXCEPT ![c] = Responded(key[c], r)]
    /\ nsave' = [nsave EXCEPT ![c] = n]
    /\ seen' = [seen EXCEPT ![c] = NoServer]
    /\ nops' = nops + 1

\* Mutant of Return: every error is returned as "Server not found".
Return_masked(c, r) ==
    /\ pc' = [pc EXCEPT ![c] = "done"]
    /\ res' = [res EXCEPT ![c] = IF r.tag = "Err" THEN NotFound ELSE r]
    /\ response' = [response EXCEPT ![c] = Responded(key[c], r)]

\* The operation returns r to its caller.
Return(c, r) ==
    /\ pc' = [pc EXCEPT ![c] = "done"]
    /\ res' = [res EXCEPT ![c] = r]
    /\ response' = [response EXCEPT ![c] = Responded(key[c], r)]

\* `others` once caller c has written the records of ids.
Noted(c, ids) ==
    [d \in Callers |-> IF d # c /\ pc[d] # "idle" THEN others[d] \cup ids ELSE others[d]]

(* ----------------------- JsonServerRepository ------------------------- *)
\* Mutant of file_path: every server is kept in the same file.
file_path_shared(id) == 1

\* self.storage_dir.join(format!("{}.json", id)): the file of a server id
file_path(id) == id

\* Mutant of exists: no file is ever found.
exists_never(id) == FALSE

\* Mutant of exists: a file whose content does not parse counts as absent.
exists_parsed(id) == file_path(id) \in DOMAIN files /\ from_str(files[file_path(id)]).ok

\* file_path.exists()
exists(id) == file_path(id) \in DOMAIN files

\* Mutant of read_dir: the entry of the least id is left out.
read_dir_skip(dir) == { f \in DOMAIN dir : \E g \in DOMAIN dir : g < f }

\* fs::read_dir(&self.storage_dir): every entry of the directory
read_dir(dir) == DOMAIN dir

\* Mutant of extension: every entry counts as a .json file.
extension_any(e) == "json"

\* path.extension(): the entry named by an id is the file <id>.json; any other
\* entry of the directory (named by a number that is no id) has another extension.
extension(e) == IF e \in Uuids THEN "json" ELSE "bak"

\* Mutant of PartialLens: the failing write_all has written all of its data.
PartialLens_whole(data) == {ByteLen(data)}

\* How much of its data a write_all that fails part-way has written.
PartialLens(data) == {0, ByteLen(data) - 1}

\* Mutant of File_create: an existing file is opened without truncate.
File_create_keep(c, s, ok) ==
    /\ UNCHANGED << last, rejection, storage_dir, repository >>
    /\ IF ok
       THEN /\ files' = IF exists(s.id) THEN files ELSE (file_path(s.id) :> <<>>) @@ files
            /\ stable' = [stable EXCEPT ![file_path(s.id)] = NoServer]
            /\ opener' = [opener EXCEPT ![file_path(s.id)] = c]
            /\ UNCHANGED << faults, latest >>
       ELSE /\ faults < MaxFaults
            /\ faults' = faults + 1
            /\ UNCHANGED << files, stable, opener, latest >>

\* save, first half, by caller c for server s: fs::write opens the file with create
\* and truncate (ok), or the open fails.
File_create(c, s, ok) ==
    /\ UNCHANGED << last, rejection, storage_dir, repository >>
    /\ IF ok
       THEN /\ files' = (file_path(s.id) :> <<>>) @@ files
            /\ stable' = [stable EXCEPT ![file_path(s.id)] = NoServer]
            /\ opener' = [opener EXCEPT ![file_path(s.id)] = c]
            /\ latest' = [latest EXCEPT ![file_path(s.id)] = NoServer]
            /\ UNCHANGED faults
       ELSE /\ faults < MaxFaults
            /\ faults' = faults + 1
            /\ UNCHANGED << files, stable, opener, latest >>

\* save, second half: write_all of the serialized server (ok), or a write_all that
\* fails after k bytes.
write_all(c, s, ok) ==
    LET f == file_path(s.id)
    IN  \E data \in {to_string_pretty(s)} :
           /\ opener' = [opener EXCEPT ![f] = 0]
           /\ UNCHANGED << rejection, storage_dir, repository >>
           /\ IF ok
              THEN /\ files' = [files EXCEPT ![f] = WriteAt0(@, data)]
                   /\ stable' = [stable EXCEPT ![f] = IF opener[f] = c THEN s ELSE NoServer]
                   /\ latest' = [latest EXCEPT ![f] = s]
                   /\ UNCHANGED faults
              ELSE /\ faults < MaxFaults
                   /\ faults' = faults + 1
                   /\ \E k \in PartialLens(data) :
                         /\ files' = [files EXCEPT ![f] = WriteAt0(@, TakeBytes(data, k))]
                         /\ latest' = IF k > 0 THEN [latest EXCEPT ![f] = s] ELSE latest
                   /\ stable' = [stable EXCEPT ![f] = NoServer]
           /\ \E r \in {from_str(files'[f])} :
                 last' = IF r.ok THEN [last EXCEPT ![f] = r.server.additional_disks] ELSE last

\* Mutant of read_to_string: a record whose save has completed is served from a
\* copy kept in memory.
read_to_string_cached(f) ==
    IF \E id \in DOMAIN store : file_path(id) = f
    THEN to_string_pretty(store[CHOOSE id \in DOMAIN store : file_path(id) = f])
    ELSE files[f]

\* fs::read_to_string(path): the content of the file as it is now
read_to_string(f) == files[f]

\* Mutant of AbsentResult: find_by_id reports a missing file as an io error.
AbsentResult_error(o) == IF o = "attach_disk" THEN NotFound ELSE IoError

\* Mutant of AbsentResult: a missing record is reported as a storage failure.
AbsentResult_storage(o) == IF o = "attach_disk" THEN IoError ELSE OkNone

\* find_by_id of an id whose file does not exist is Ok(None), which attach_disk
\* turns into the error "Server not found" (ok_or_else).
AbsentResult(o) == IF o = "attach_disk" THEN NotFound ELSE OkNone

\* Mutant of push: the new disk is pushed twice.
push_twice(disks, disk) == Append(Append(disks, disk), disk)

\* Mutant of push: the new disk replaces the list.
push_replace(disks, disk) == << disk >>

\* server.additional_disks.push(disk)
push(disks, disk) == Append(disks, disk)

\* Mutant of AttachTo: the server is also set Running.
AttachTo_running(server, disk) ==
    [server EXCEPT !.additional_disks = push(@, disk), !.status = "Running"]

\* Mutant of AttachTo: the size of the disk is added to storage_gb.
AttachTo_resized(server, disk) ==
    [server EXCEPT !.additional_disks = push(@, disk), !.storage_gb = @ + disk.size_gb]

\* Mutant of AttachTo: the new disk is put first.
AttachTo_front(server, disk) == [server EXCEPT !.additional_disks = << disk >> \o @]

\* Mutant of AttachTo: the server saved carries the id of the new disk.
AttachTo_renumbered(server, disk) ==
    [server EXCEPT !.id = disk.id, !.additional_disks = push(@, disk)]

\* attach_disk, between find_by_id and save: `server` is what was read, with the new
\* disk pushed; no other field is assigned.
AttachTo(server, disk) == [server EXCEPT !.additional_disks = push(@, disk)]

(* ------------- the repository port over an abstract map -------------- *)
\* ServerRepository implemented by a map from id to Server: save is update,
\* find_by_id is lookup, list_all is all values.
update(m, server) == (server.id :> server) @@ m
lookup(m, id) == IF id \in DOMAIN m THEN OkSome(m[id]) ELSE OkNone
values(m) == { m[id] : id \in DOMAIN m }

\* The map after operation o with command cm, run over the map with the ids the
\* call generated (those of the local server s): create_server saves
\* Server::new(..), attach_disk saves what it looked up with the new disk pushed,
\* save saves s.
Abstract(m, o, cm, s) ==
    IF o = "create_server"
    THEN update(m, ServerNew(s.id, cm.name, cm.cpu, cm.ram, cm.storage))
    ELSE IF o = "attach_disk"
    THEN IF lookup(m, cm.server_id).tag = "Some"
         THEN update(m, AttachTo(lookup(m, cm.server_id).server,
                                 Disk(s.additional_disks[Len(s.additional_disks)].id,
                                      cm.size_gb)))
         ELSE m
    ELSE update(m, s)

(* ---------------- operations: entry and first system call ------------- *)
\* Mutant of create_server: a command with an empty name is refused before save.
create_server_validated(c) ==
    /\ Idle(c)
    /\ \E m \in CreateCmds, id \in new_v4(issued), ok \in BOOLEAN :
         LET s == ServerNew(id, m.name, m.cpu, m.ram, m.storage)
         IN  /\ issued' = issued \cup {id}
             /\ IF m.name = ""
                THEN /\ ~ok
                     /\ UNCHANGED << files, stable, opener, latest, faults, last,
                                   rejection, storage_dir, repository >>
                     /\ Begin(c, "create_server", m, s, {}, 0, "done", Err("invalid name"))
                ELSE /\ File_create(c, s, ok)
                     /\ Begin(c, "create_server", m, s, {}, 1,
                              IF ok THEN "write_all" ELSE "done",
                              IF ok THEN NoResult ELSE IoError)
             /\ others' = [Noted(c, IF ok THEN {s.id} ELSE {}) EXCEPT ![c] = {}]
             /\ failed' = IF ok THEN failed ELSE failed \cup {s.id}
    /\ UNCHANGED << created, attached, key, store, made >>

\* create_server up to the open of the file: Server::new(cmd.name, cmd.cpu, cmd.ram,
\* cmd.storage), then save serializes and opens.
create_server(c) ==
    /\ Idle(c)
    /\ \E m \in CreateCmds, id \in new_v4(issued), ok \in BOOLEAN :
         LET s == ServerNew(id, m.name, m.cpu, m.ram, m.storage)
         IN  /\ issued' = issued \cup {id}
             /\ File_create(c, s, ok)
             /\ Begin(c, "create_server", m, s, {}, 1,
                      IF ok THEN "write_all" ELSE "done", IF ok THEN NoResult ELSE IoError)
             /\ others' = [Noted(c, IF ok THEN {s.id} ELSE {}) EXCEPT ![c] = {}]
             /\ failed' = IF ok THEN failed ELSE failed \cup {s.id}
    /\ UNCHANGED << created, attached, key, store, made >>

\* Mutant of Listing: list_servers answers with the empty list without calling
\* list_all.
Listing_empty(c, o) ==
    /\ Idle(c)
    /\ Begin(c, o, NoCmd, NoServer, IF o = "list_servers" THEN {} ELSE read_dir(files), 0,
             IF o = "list_servers" \/ read_dir(files) = {} THEN "done" ELSE "entry",
             IF o = "list_servers" \/ read_dir(files) = {} THEN OkList(<<>>) ELSE NoResult)
    /\ others' = [others EXCEPT ![c] = {}]
    /\ UNCHANGED << files, issued, faults, created, attached, stable, opener, key,
                    last, latest, rejection, storage_dir, repository, failed, store, made >>

\* list_all up to fs::read_dir, called as operation o; read_dir fails when
\* storage_dir is not a directory
Listing(c, o) ==
    /\ Idle(c)
    /\ IF storage_dir = "dir"
       THEN Begin(c, o, NoCmd, NoServer, read_dir(files), 0,
                  IF read_dir(files) = {} THEN "done" ELSE "entry",
                  IF read_dir(files) = {} THEN OkList(<<>>) ELSE NoResult)
       ELSE Begin(c, o, NoCmd, NoServer, {}, 0, "done", IoError)
    /\ others' = [others EXCEPT ![c] = {}]
    /\ UNCHANGED << files, issued, faults, created, attached, stable, opener, key,
                    last, latest, rejection, storage_dir, repository, failed, store, made >>

\* list_servers: self.repo.list_all().await
list_servers(c) == Listing(c, "list_servers")

\* find_by_id up to file_path.exists(), called as operation o with command m
Lookup(c, o, m) ==
    /\ Begin(c, o, m, NoServer, {}, 0,
             IF exists(m.server_id) THEN "read_to_string" ELSE "done",
             IF exists(m.server_id) THEN NoResult ELSE AbsentResult(o))
    /\ others' = [others EXCEPT ![c] = {}]
    /\ UNCHANGED << files, issued, faults, created, attached, stable, opener, key,
                    last, latest, rejection, storage_dir, repository, failed, store, made >>

\* attach_disk up to the exists() of its find_by_id(cmd.server_id)
attach_disk(c) ==
    /\ Idle(c)
    /\ \E id \in Uuids, g \in DiskSizes : Lookup(c, "attach_disk", AttachDiskCommand(id, g))

(* ------------- callers of the repository port (ServerRepository) ------ *)
\* The server values a caller of the port may pass to save: two servers, each in
\* two states, which between them have every status and disk lists of length 0,
\* 1 and 2 (in both orders).
SampleServers ==
    { [ServerNew(v[1], v[2].name, v[2].cpu, v[2].ram, v[2].storage)
          EXCEPT !.status = v[3], !.additional_disks = v[4]] :
        v \in { << 1, CreateServerCommand("vm-1", 2, 4, 40), "Provisioning", <<>> >>,
                << 1, CreateServerCommand("vm-1", 2, 4, 40), "Terminated",
                   << Disk(3, 20), Disk(2, 100) >> >>,
                << 2, CreateServerCommand("", 0, 0, 0), "Running", << Disk(2, 100) >> >>,
                << 2, CreateServerCommand("", 0, 0, 0), "Stopped",
                   << Disk(2, 100), Disk(3, 20) >> >> } }

\* repo.find_by_id(id)
find_by_id(c) ==
    /\ Idle(c)
    /\ \E id \in Uuids : Lookup(c, "find_by_id", AttachDiskCommand(id, 0))

\* repo.list_all()
list_all(c) == Listing(c, "list_all")

\* repo.save(&server) up to the open of the file
save(c) ==
    /\ Idle(c)
    /\ \E s \in SampleServers, ok \in BOOLEAN :
         /\ File_create(c, s, ok)
         /\ Begin(c, "save", NoCmd, s, {}, 1,
                  IF ok THEN "write_all" ELSE "done", IF ok THEN NoResult ELSE IoError)
         /\ others' = [Noted(c, IF ok THEN {s.id} ELSE {}) EXCEPT ![c] = {}]
    /\ UNCHANGED << issued, created, attached, key, failed, store, made >>

(* --------------------- operations: later steps ------------------------ *)
\* the save of attach_disk, first half
save_create(c) ==
    /\ pc[c] = "File::create"
    /\ nsave' = [nsave EXCEPT ![c] = @ + 1]
    /\ \E ok \in BOOLEAN :
         /\ File_create(c, srv[c], ok)
         /\ others' = Noted(c, IF ok THEN {srv[c].id} ELSE {})
         /\ IF ok THEN pc' = [pc EXCEPT ![c] = "write_all"] /\ UNCHANGED << res, response >>
            ELSE Return(c, IoError)
    /\ UNCHANGED << issued, op, cmd, srv, prev, entries, acc, nops, created, attached, seen,
                    key, failed, store, made >>

\* save, second half, then the operation returns: Ok(server) from create_server and
\* attach_disk, Ok(()) from save.
save_write(c) ==
    /\ pc[c] = "write_all"
    /\ \E ok \in BOOLEAN :
         /\ write_all(c, srv[c], ok)
         /\ Return(c, IF ~ok THEN IoError ELSE IF op[c] = "save" THEN OkUnit ELSE Ok(srv[c]))
         /\ created' = IF ok /\ op[c] = "create_server" THEN Append(created, srv[c])
                       ELSE created
         /\ attached' = IF ok /\ op[c] = "attach_disk"
                        THEN [attached EXCEPT ![srv[c].id] =
                                Append(@, srv[c].additional_disks[Len(srv[c].additional_disks)])]
                        ELSE attached
         /\ failed' = IF ~ok /\ op[c] = "create_server" THEN failed \cup {srv[c].id}
                      ELSE failed
         /\ store' = IF ok THEN Abstract(store, op[c], cmd[c], srv[c]) ELSE store
    /\ others' = Noted(c, {srv[c].id})
    /\ UNCHANGED << issued, op, cmd, srv, prev, entries, acc, nops, nsave, seen, key,
                    made >>

\* find_by_id, second half: read_to_string and from_str.  attach_disk goes on to
\* build the Disk with a new id, push it and call save.
find_read(c) ==
    LET id == cmd[c].server_id
        r == from_str(read_to_string(file_path(id)))
    IN  /\ pc[c] = "read_to_string"
        /\ seen' = [seen EXCEPT ![c] = stable[file_path(id)]]
        /\ IF ~r.ok
           THEN /\ Return(c, SerdeError)
                /\ UNCHANGED << issued, srv, prev, made >>
           ELSE IF op[c] = "find_by_id"
           THEN /\ Return(c, OkSome(r.server))
                /\ UNCHANGED << issued, srv, prev, made >>
           ELSE /\ \E d \in new_v4(issued) :
                     /\ issued' = issued \cup {d}
                     /\ srv' = [srv EXCEPT ![c] = AttachTo(r.server, Disk(d, cmd[c].size_gb))]
                     /\ made' = [made EXCEPT ![id] = @ \cup {Disk(d, cmd[c].size_gb)}]
                /\ prev' = [prev EXCEPT ![c] = r.server]
                /\ pc' = [pc EXCEPT ![c] = "File::create"]
                /\ UNCHANGED << res, response >>
        /\ UNCHANGED << files, op, cmd, entries, acc, nops, faults, created, attached,
                        stable, opener, nsave, others, key, last, latest, rejection, storage_dir, repository,
                        failed, store >>

\* Mutant of list_entry: an entry that does not parse is skipped.
list_entry_skip(c) ==
    /\ pc[c] = "entry"
    /\ \E e \in entries[c] :
         LET r == from_str(files[e])
             rest == entries[c] \ {e}
             servers == IF r.ok THEN Append(acc[c], r.server) ELSE acc[c]
         IN  /\ entries' = [entries EXCEPT ![c] = rest]
             /\ acc' = [acc EXCEPT ![c] = servers]
             /\ IF rest = {}
                THEN Return(c, OkList(servers))
                ELSE UNCHANGED << pc, res, response >>
    /\ UNCHANGED << files, issued, op, cmd, srv, prev, nops, faults, created, attached,
                    stable, opener, nsave, seen, others, key, last, latest, rejection, storage_dir, repository,
                    failed, store, made >>

\* Mutant of list_entry: the entry read stays among those still to visit.
list_entry_again(c) ==
    /\ pc[c] = "entry"
    /\ \E e \in entries[c] :
         LET r == from_str(read_to_string(e))
         IN  /\ UNCHANGED entries
             /\ IF ~r.ok
                THEN /\ Return(c, SerdeError)
                     /\ UNCHANGED acc
                ELSE /\ acc' = [acc EXCEPT ![c] = Append(@, r.server)]
                     /\ Len(acc[c]) < MaxUuid
                     /\ UNCHANGED << pc, res, response >>
    /\ UNCHANGED << files, issued, op, cmd, srv, prev, nops, faults, created, attached,
                    stable, opener, nsave, seen, others, key, last, latest, rejection, storage_dir, repository,
                    failed, store, made >>

\* list_all: one turn of the loop, over the next entry in the order the directory
\* yields them: an entry whose extension is not json is passed over, a .json entry
\* is read (read_to_string) and parsed (from_str)
list_entry(c) ==
    /\ pc[c] = "entry"
    /\ \E e \in entries[c] :
         LET r == from_str(read_to_string(e))
             rest == entries[c] \ {e}
         IN  /\ entries' = [entries EXCEPT ![c] = rest]
             /\ IF extension(e) # "json"
                THEN /\ UNCHANGED acc
                     /\ IF rest = {}
                        THEN Return(c, OkList(acc[c]))
                        ELSE UNCHANGED << pc, res, response >>
                ELSE IF ~r.ok
                THEN /\ Return(c, SerdeError)
                     /\ UNCHANGED acc
                ELSE /\ acc' = [acc EXCEPT ![c] = Append(@, r.server)]
                     /\ IF rest = {}
                        THEN Return(c, OkList(Append(acc[c], r.server)))
                        ELSE UNCHANGED << pc, res, response >>
    /\ UNCHANGED << files, issued, op, cmd, srv, prev, nops, faults, created, attached,
                    stable, opener, nsave, seen, others, key, last, latest, rejection, storage_dir, repository,
                    failed, store, made >>

(* --------------------------- specifications --------------------------- *)
\* The three operations of ManageServers, step by step.
ServiceStep(c) ==
    \/ create_server(c)
    \/ list_servers(c)
    \/ attach_disk(c)
    \/ save_create(c)
    \/ save_write(c)
    \/ find_read(c)
    \/ list_entry(c)

\* The service shared by concurrent callers: any caller takes the next step.
Next == \E c \in Callers : ServiceStep(c)

Spec == Init /\ [][Next]_vars

\* No other caller is inside an operation.
Alone(c) == \A d \in Callers \ {c} : pc[d] \in {"idle", "done"}

\* One call at a time (no concurrent caller): the service, and a re-fetch through
\* the repository port.
SeqNext == \E c \in Callers :
    \/ Alone(c) /\ create_server(c)
    \/ Alone(c) /\ list_servers(c)
    \/ Alone(c) /\ attach_disk(c)
    \/ Alone(c) /\ find_by_id(c)
    \/ Alone(c) /\ save_create(c)
    \/ Alone(c) /\ save_write(c)
    \/ Alone(c) /\ find_read(c)
    \/ Alone(c) /\ list_entry(c)

SeqSpec == Init /\ [][SeqNext]_vars

\* The repository port called directly by concurrent callers.
RepoNext == \E c \in Callers :
    \/ save(c)
    \/ find_by_id(c)
    \/ list_all(c)
    \/ save_write(c)
    \/ find_read(c)
    \/ list_entry(c)

RepoSpec == Init /\ [][RepoNext]_vars

(* ------------------------- the HTTP adapter --------------------------- *)
\* warp::serve(routes(service)): a request arrives with its x-api-key header, in a
\* slot whose previous request, if any, has been answered.
request(c) ==
    /\ Idle(c)
    /\ pc[c] = "done" \/ key[c] = NoRequest
    /\ \E k \in Headers : key' = [key EXCEPT ![c] = k]
    /\ pc' = [pc EXCEPT ![c] = "idle"]
    /\ response' = [response EXCEPT ![c] = NoResponse]
    /\ UNCHANGED << files, issued, op, cmd, srv, prev, entries, acc, res, nops, faults,
                    created, attached, stable, opener, nsave, seen, others,
                    last, latest, rejection, storage_dir, repository, failed, store, made >>

\* The request is in the filter chain of routes: method, path, body, with_port.
\* No filter of the chain reads the x-api-key header.
Routed(c) == key[c] # NoRequest /\ pc[c] = "idle"

\* POST /servers: the command is built from the body and port.create_server is called
handle_create_server(c) == Routed(c) /\ create_server(c)

\* GET /servers: port.list_servers is called
handle_list_servers(c) == Routed(c) /\ list_servers(c)

\* POST /servers/{id}/disks: port.attach_disk is called
handle_attach_disk(c) == Routed(c) /\ attach_disk(c)

\* security.rs, with_auth: passes a request whose header is the secret and rejects
\* any other with SecurityError::Unauthorized.  routes does not apply it.
Unauthorized == "SecurityError::Unauthorized"
with_auth(k) == IF k = API_KEY THEN Reply ELSE Unauthorized

\* A warp Rejection is the not-found rejection or carries one or more causes (the
\* rejections of the branches of an `or` are combined): it is modelled as the set of
\* its causes, the not-found rejection being the one without a cause.
PayloadTooLarge == "warp::reject::PayloadTooLarge"
Causes == {Unauthorized, PayloadTooLarge, "MethodNotAllowed", "UnsupportedMediaType",
           "LengthRequired", "BodyDeserializeError"}
Rejections == SUBSET Causes

\* Rejection::is_not_found
is_not_found(err) == err = {}

\* Rejection::find::<T>: a cause of type T, looked for among all the causes
find(err, cause) == cause \in err

\* Mutant of handle_rejection: no case for PayloadTooLarge.
handle_rejection_unsized(err) ==
    IF is_not_found(err) THEN Response(404, "error", <<>>, "Resource not found")
    ELSE IF find(err, Unauthorized)
         THEN Response(401, "error", <<>>, "Invalid or missing API Key")
    ELSE Response(500, "error", <<>>, "An internal error occurred")

\* security.rs, handle_rejection: Ok(reply) with the status and the body
\* {"error": message} it gives a rejection, the first case that matches.  routes
\* does not attach it.
handle_rejection(err) ==
    IF is_not_found(err) THEN Response(404, "error", <<>>, "Resource not found")
    ELSE IF find(err, Unauthorized)
         THEN Response(401, "error", <<>>, "Invalid or missing API Key")
    ELSE IF find(err, PayloadTooLarge)
         THEN Response(413, "error", <<>>, "Payload too large")
    ELSE Response(500, "error", <<>>, "An internal error occurred")

\* security.rs, handle_rejection: the messages it puts in {"error": message}
FixedMessages == {"Resource not found", "Invalid or missing API Key", "Payload too large",
                  "An internal error occurred"}

\* The caller's request has been answered.
Answered(c) == key[c] # NoRequest /\ pc[c] = "done"

WebNext == \E c \in Callers :
    \/ request(c)
    \/ handle_create_server(c)
    \/ handle_list_servers(c)
    \/ handle_attach_disk(c)
    \/ save_create(c)
    \/ save_write(c)
    \/ find_read(c)
    \/ list_entry(c)

WebSpec == Init /\ [][WebNext]_vars

\* The HTTP adapter given one request at a time, as by the tests of main.rs.
WebSeqNext == \E c \in Callers :
    \/ Alone(c) /\ request(c)
    \/ Alone(c) /\ handle_create_server(c)
    \/ Alone(c) /\ handle_list_servers(c)
    \/ Alone(c) /\ handle_attach_disk(c)
    \/ Alone(c) /\ save_create(c)
    \/ Alone(c) /\ save_write(c)
    \/ Alone(c) /\ find_read(c)
    \/ Alone(c) /\ list_entry(c)

WebSeqSpec == Init /\ [][WebSeqNext]_vars

(* ------------------- the unit test of map_to_response ----------------- *)
\* The servers the test may build: any id, the name of the test or the empty name,
\* any status, up to two disks.
MapDisks == { Disk(id, g) : id \in Uuids, g \in DiskSizes }
MapServers ==
    { [ServerNew(id, name, 2, 4, 40) EXCEPT !.status = status, !.additional_disks = disks] :
        id \in Uuids, name \in {"test-vm", ""}, status \in ServerStatus,
        disks \in {<<>>} \cup { << d >> : d \in MapDisks }
                         \cup { << d, e >> : d \in MapDisks, e \in MapDisks } }

\* let server = Server { .. }
MapInit ==
    /\ files = << >>
    /\ issued = {}
    /\ pc = [c \in Callers |-> "idle"]
    /\ op = [c \in Callers |-> ""]
    /\ cmd = [c \in Callers |-> NoCmd]
    /\ \E s \in MapServers : srv = [c \in Callers |-> IF c = 1 THEN s ELSE NoServer]
    /\ prev = [c \in Callers |-> NoServer]
    /\ entries = [c \in Callers |-> {}]
    /\ acc = [c \in Callers |-> <<>>]
    /\ res = [c \in Callers |-> NoResult]
    /\ nops = 0
    /\ faults = 0
    /\ created = <<>>
    /\ attached = [id \in Uuids |-> <<>>]
    /\ stable = [id \in Uuids |-> NoServer]
    /\ opener = [id \in Uuids |-> 0]
    /\ nsave = [c \in Callers |-> 0]
    /\ seen = [c \in Callers |-> NoServer]
    /\ others = [c \in Callers |-> {}]
    /\ key = [c \in Callers |-> NoRequest]
    /\ last = [id \in Uuids |-> <<>>]
    /\ failed = {}
    /\ store = << >>
    /\ response = [c \in Callers |-> NoResponse]
    /\ made = [id \in Uuids |-> {}]
    /\ latest = [id \in Uuids |-> NoServer]
    /\ rejection = {}
    /\ storage_dir = "dir"
    /\ repository = "Ok"

\* let response = map_to_response(server.clone())
test_map_to_response ==
    /\ pc[1] = "idle"
    /\ pc' = [pc EXCEPT ![1] = "done"]
    /\ response' = [response EXCEPT ![1] = Response(200, "object", << map_to_response(srv[1]) >>, "")]
    /\ UNCHANGED << files, issued, op, cmd, srv, prev, entries, acc, res, nops, faults,
                    created, attached, stable, opener, nsave, seen, others, key,
                    last, latest, rejection, storage_dir, repository, failed, store, made >>

MapNext == test_map_to_response

MapSpec == MapInit /\ [][MapNext]_vars

(* ------------------------------- claims ------------------------------- *)
Range(seq) == { seq[i] : i \in DOMAIN seq }

\* The caller's operation has returned Ok.
Returned(c, o) == op[c] = o /\ pc[c] = "done" /\ res[c].tag \notin {"none", "Err"}

\* The file of id holds a record that parses.
Persisted(id) == exists(id) /\ from_str(files[file_path(id)]).ok

\* The server the file of id holds.
Record(id) == from_str(files[file_path(id)]).server

\* C1: the ids of the servers create_server has returned are pairwise distinct, and
\* no two persisted records carry the same Server.id (a record's id is the id its
\* file is named after), in every interleaving of the callers.
C1_UniqueIds ==
    LET parsed == [f \in DOMAIN files |-> from_str(files[f])]
    IN  /\ \A i, j \in DOMAIN created : i # j => created[i].id # created[j].id
        /\ \A f, g \in DOMAIN files :
             (f # g /\ parsed[f].ok /\ parsed[g].ok) => parsed[f].server.id # parsed[g].server.id
        /\ \A f \in DOMAIN files : parsed[f].ok => file_path(parsed[f].server.id) = f

\* Two servers created by overlapping calls, both persisted.
C1_Witness ==
    /\ Len(created) = 2
    /\ Persisted(created[1].id) /\ Persisted(created[2].id)
    /\ \A c \in Callers : Returned(c, "create_server") /\ others[c] # {}

\* C2: every server create_server returns, and the record that call persisted, has
\* status Provisioning and no disks, and carries the name, cpu, ram and storage
\* the caller supplied, whatever they are.
C2_InitialState ==
    [][\A c \in Callers :
          (pc[c] = "write_all" /\ op[c] = "create_server" /\ res'[c].tag = "Ok")
             => LET s == res'[c].server
                IN  /\ s.status = "Provisioning"
                    /\ s.additional_disks = <<>>
                    /\ s.name = cmd[c].name
                    /\ s.cpu_cores = cmd[c].cpu
                    /\ s.ram_gb = cmd[c].ram
                    /\ s.storage_gb = cmd[c].storage
                    /\ from_str(files'[file_path(s.id)]) = [ok |-> TRUE, server |-> s]]_vars

\* create_server has returned for the command with an empty name and zero sizes.
C2_Witness ==
    \E c \in Callers :
        /\ Returned(c, "create_server")
        /\ cmd[c] = CreateServerCommand("", 0, 0, 0)
        /\ Persisted(res[c].server.id)

\* C3: find_by_id of a record whose last write access was a save(s) that ran
\* undisturbed returns Some(s), equal to s in every field, for every status and
\* every disk list (empty, one disk, two disks in either order).
C3_RoundTrip ==
    \A c \in Callers :
        (op[c] = "find_by_id" /\ pc[c] = "done" /\ seen[c] # NoServer)
           => res[c] = OkSome(seen[c])

\* find_by_id has returned a saved server that is Terminated and has two disks,
\* saved over a longer or shorter earlier record of the same id.
C3_Witness ==
    \E c \in Callers :
        /\ op[c] = "find_by_id" /\ pc[c] = "done"
        /\ seen[c] # NoServer
        /\ res[c].tag = "Some"
        /\ res[c].server.status = "Terminated"
        /\ Len(res[c].server.additional_disks) = 2
        /\ nops = 3 /\ Cardinality(DOMAIN files) = 1

\* The server create_server returned for id, with the disks attached since.
Current(i) == [created[i] EXCEPT !.additional_disks = attached[created[i].id]]

\* C4: with one call at a time, after n successful create_server calls on an empty
\* store list_servers returns exactly those n servers: n elements, the created ids
\* each once, each element the created server (with the disks attached to it
\* since); and the file of every created id exists.
C4_ListComplete ==
    /\ \A i \in DOMAIN created : exists(created[i].id)
    /\ \A c \in Callers :
         (op[c] = "list_servers" /\ pc[c] = "done")
            => /\ faults = 0 => res[c].tag = "List"
               /\ res[c].tag = "List"
                    => /\ Len(res[c].list) = Len(created)
                       /\ { s.id : s \in Range(res[c].list) } = { s.id : s \in Range(created) }
                       /\ Range(res[c].list) = { Current(i) : i \in DOMAIN created }

\* list_servers has returned the two servers created before it.
C4_Witness ==
    \E c \in Callers :
        /\ Returned(c, "list_servers")
        /\ Len(created) = 2
        /\ Len(res[c].list) = 2
        /\ res[c].list[1].id # res[c].list[2].id

\* C5: with one call at a time, a successful attach_disk returns the disk list the
\* record held before the call followed by one new disk of the requested size, and
\* the list holds the disks of all successful attach_disk calls on that server in
\* call order (k calls, k disks).
C5_AttachAccumulates ==
    \A c \in Callers :
        Returned(c, "attach_disk")
           => LET disks == res[c].server.additional_disks
                  k == Len(disks)
              IN  /\ prev[c] = seen[c]
                  /\ k = Len(prev[c].additional_disks) + 1
                  /\ SubSeq(disks, 1, k - 1) = prev[c].additional_disks
                  /\ disks[k].size_gb = cmd[c].size_gb
                  /\ \A i \in 1..(k - 1) : disks[i].id # disks[k].id
                  /\ disks = attached[cmd[c].server_id]
                  /\ res[c].server = [prev[c] EXCEPT !.additional_disks = disks]

\* The second attach_disk on a server has returned: 100 GB, then 20 GB.
C5_Witness ==
    \E c \in Callers :
        /\ Returned(c, "attach_disk")
        /\ Len(res[c].server.additional_disks) = 2
        /\ res[c].server.additional_disks[1].size_gb = 100
        /\ res[c].server.additional_disks[2].size_gb = 20

\* C6: attach_disk on an id that has no record returns the error "Server not
\* found", which is neither an io::Error nor a serde_json::Error, has called save
\* zero times and has left every file as it was.
C6_AttachNotFound ==
    [][\A c \in Callers :
          (/\ Idle(c) /\ nops' = nops + 1
           /\ op'[c] = "attach_disk"
           /\ ~exists(cmd'[c].server_id))
             => /\ pc'[c] = "done"
                /\ res'[c] = NotFound
                /\ res'[c] \notin {IoError, SerdeError}
                /\ nsave'[c] = 0
                /\ files' = files]_vars

\* attach_disk has returned "Server not found" for an id without a record, in a
\* store that holds the record of another server.
C6_Witness ==
    \E c \in Callers :
        /\ op[c] = "attach_disk" /\ pc[c] = "done"
        /\ res[c] = NotFound
        /\ ~exists(cmd[c].server_id)
        /\ nsave[c] = 0
        /\ \E id \in Uuids : Persisted(id)

\* C7: with one call at a time, the record a successful attach_disk leaves is the
\* server it returned; a find_by_id of a server that disks were attached to
\* returns the disk list the last attach_disk returned; and list_servers holds
\* that server exactly once, with that disk list.
C7_AttachPersisted ==
    \A c \in Callers :
        /\ Returned(c, "attach_disk")
             => from_str(files[file_path(cmd[c].server_id)])
                   = [ok |-> TRUE, server |-> res[c].server]
        /\ (op[c] = "find_by_id" /\ pc[c] = "done" /\ attached[cmd[c].server_id] # <<>>)
             => /\ faults = 0 => res[c].tag = "Some"
                /\ res[c].tag = "Some"
                     => /\ res[c].server.id = cmd[c].server_id
                        /\ res[c].server.additional_disks = attached[cmd[c].server_id]
        /\ Returned(c, "list_servers")
             => \A id \in Uuids :
                   attached[id] # <<>>
                      => /\ Cardinality({ i \in DOMAIN res[c].list : res[c].list[i].id = id }) = 1
                         /\ \A s \in Range(res[c].list) :
                               s.id = id => s.additional_disks = attached[id]

\* find_by_id has returned the server with the disk a successful attach_disk
\* attached just before.
C7_Witness ==
    \E c \in Callers :
        /\ op[c] = "find_by_id" /\ pc[c] = "done"
        /\ res[c].tag = "Some"
        /\ Len(attached[cmd[c].server_id]) = 1
        /\ res[c].server.additional_disks = attached[cmd[c].server_id]

\* The id an operation of caller c works on.
Target(c) == IF op[c] = "attach_disk" THEN cmd[c].server_id ELSE srv[c].id

\* C8: save is atomic with respect to readers.  When one save(s) and one
\* find_by_id or list_all are the only calls and no filesystem error occurs, the
\* reader returns Ok: for the id of s it has seen no record or the complete s,
\* never an empty or partly written file.
C8_AtomicSave ==
    \A c, d \in Callers :
        (/\ nops = 2 /\ faults = 0
         /\ op[d] = "save"
         /\ op[c] \in {"find_by_id", "list_all"} /\ pc[c] = "done")
           => /\ res[c].tag # "Err"
              /\ res[c].tag = "Some" => res[c].server = srv[d]
              /\ res[c].tag = "List" => Range(res[c].list) \subseteq {srv[d]}

\* C9: two attach_disk calls on the same server that both read the same prior
\* record and both return Ok each return that record with their own new disk
\* appended, and no record persisted afterwards holds both new disks: when the
\* record parses, it is the result of one call and the disk of the other is lost.
C9_LostUpdate ==
    \A c, d \in Callers :
        (/\ c # d
         /\ Returned(c, "attach_disk") /\ Returned(d, "attach_disk")
         /\ cmd[c].server_id = cmd[d].server_id
         /\ prev[c] = prev[d])
           => LET id == cmd[c].server_id
                  new(x) == res[x].server.additional_disks[Len(res[x].server.additional_disks)]
              IN  /\ \A x \in {c, d} :
                        /\ Len(res[x].server.additional_disks)
                              = Len(prev[x].additional_disks) + 1
                        /\ res[x].server
                              = [prev[x] EXCEPT !.additional_disks = Append(@, new(x))]
                  /\ new(c).id # new(d).id
                  /\ Persisted(id)
                       => ~(/\ new(c) \in Range(Record(id).additional_disks)
                            /\ new(d) \in Range(Record(id).additional_disks))
                  /\ (Persisted(id) /\ nops = 3)
                       => Record(id) \in {res[c].server, res[d].server}

\* Both calls have returned Ok and the record holds the disk of one of them only.
C9_Witness ==
    \E c, d \in Callers :
        /\ c # d
        /\ Returned(c, "attach_disk") /\ Returned(d, "attach_disk")
        /\ cmd[c].server_id = cmd[d].server_id
        /\ prev[c] = prev[d]
        /\ Persisted(cmd[c].server_id)
        /\ Record(cmd[c].server_id) = res[d].server
        /\ Len(Record(cmd[c].server_id).additional_disks) = 1
        /\ res[c].server.additional_disks[1] \notin Range(Record(cmd[c].server_id).additional_disks)

\* C10: a save, create_server or attach_disk (the last two end in a save) whose id
\* no other caller has written since it began leaves, whatever the other callers
\* do to other ids meanwhile, the record it produces alone: the server passed to
\* save, the new server of the command, or the record read with the call's own
\* disk appended; and that record stays until another call writes the id.
C10_NoInterference ==
    \A c \in Callers :
        (/\ \E o \in {"save", "create_server", "attach_disk"} : Returned(c, o)
         /\ Target(c) \notin others[c])
           => /\ from_str(files[file_path(Target(c))]) = [ok |-> TRUE, server |-> srv[c]]
              /\ op[c] = "save" => res[c] = OkUnit
              /\ op[c] # "save" => res[c] = Ok(srv[c])
              /\ op[c] = "create_server"
                   => srv[c] = ServerNew(Target(c), cmd[c].name, cmd[c].cpu,
                                         cmd[c].ram, cmd[c].storage)
              /\ op[c] = "attach_disk"
                   => \E u \in Uuids :
                         srv[c] = [prev[c] EXCEPT !.additional_disks =
                                      Append(@, Disk(u, cmd[c].size_gb))]

\* A create_server and an attach_disk on different ids have overlapped (each wrote
\* while the other was under way) and both records are the servers they returned.
C10_Witness ==
    \E c, d \in Callers :
        /\ Returned(c, "create_server") /\ Returned(d, "attach_disk")
        /\ Target(c) # Target(d)
        /\ Target(c) \in others[d] /\ Target(d) \in others[c]
        /\ Target(c) \notin others[c] /\ Target(d) \notin others[d]
        /\ Record(Target(c)) = res[c].server
        /\ Record(Target(d)) = res[d].server

\* C11: when two save calls for the same id overlap and both return Ok (they are the
\* only calls and no filesystem error occurs), the record of the id parses and is,
\* in full, the server one of the two passed; it is never a mixture.
C11_LastWriterWins ==
    \A c, d \in Callers :
        (/\ c # d
         /\ nops = 2 /\ faults = 0
         /\ Returned(c, "save") /\ Returned(d, "save")
         /\ srv[c].id = srv[d].id)
           => /\ Persisted(srv[c].id)
              /\ Record(srv[c].id) \in {srv[c], srv[d]}

\* C12: a find_by_id that reads a file that does not parse returns the
\* serde_json::Error (an Err: not Ok(None), not Ok(Some)); a turn of list_all that
\* reads such a file ends the whole call with that error, and list_all returns a
\* list only after its last entry, holding one server per entry read.
C12_CorruptFailsFast ==
    [][\A c \in Callers :
          /\ (/\ pc[c] = "read_to_string" /\ pc'[c] # pc[c]
              /\ ~from_str(files[file_path(cmd[c].server_id)]).ok)
                => pc'[c] = "done" /\ res'[c] = SerdeError /\ res'[c].tag = "Err"
          /\ (pc[c] = "entry" /\ entries'[c] # entries[c])
                => LET e == CHOOSE f \in entries[c] : f \notin entries'[c]
                   IN  /\ ~from_str(files[e]).ok
                          => pc'[c] = "done" /\ res'[c] = SerdeError
                       /\ res'[c].tag = "List"
                          => /\ entries'[c] = {}
                             /\ from_str(files[e]).ok
                             /\ res'[c].list = Append(acc[c], from_str(files[e]).server)
                       /\ from_str(files[e]).ok => Len(acc'[c]) = Len(acc[c]) + 1]_vars

\* list_all has failed on a store that holds one record that parses and one that a
\* failed write left cut short, with no save under way.
C12_Witness ==
    \E c \in Callers :
        /\ op[c] = "list_all" /\ pc[c] = "done" /\ res[c] = SerdeError
        /\ \A d \in Callers : pc[d] \in {"idle", "done"}
        /\ Cardinality(DOMAIN files) = 2
        /\ \E f, g \in DOMAIN files :
              /\ from_str(files[f]).ok
              /\ ~from_str(files[g]).ok /\ files[g] # <<>>

\* C13: a request whose x-api-key header is absent or wrong never enters an
\* operation of the service: it waits in the filter chain or has been answered 401,
\* with no create_server, list_servers or attach_disk call made for it.
C13_AuthRequired ==
    \A c \in Callers :
        key[c] \in Headers \ {API_KEY}
           => \/ pc[c] = "idle"
              \/ pc[c] = "done" /\ StatusCode(res[c]) = 401

\* C14: the response to a request with the secret that attach_disk answered with "Server not
\* found" has status 404, and the response to a request that create_server,
\* list_servers or attach_disk answered with an io or serde_json error has status 500.
C14_ErrorMapping ==
    \A c \in Callers :
        (Answered(c) /\ key[c] = API_KEY)
           => /\ res[c] = NotFound => StatusCode(res[c]) = 404
              /\ res[c] \in {IoError, SerdeError} => StatusCode(res[c]) = 500

\* C15: the status of a server never changes.  Every record a step writes, if it
\* parses, has status Provisioning (so has every persisted server, all being made by
\* create_server); create_server returns Provisioning; and attach_disk returns,
\* and leaves in the record, the status it read.
C15_StatusFixed ==
    [][/\ \A f \in DOMAIN files' :
            (f \notin DOMAIN files \/ files'[f] # files[f])
               => (from_str(files'[f]).ok
                     => from_str(files'[f]).server.status = "Provisioning")
       /\ \A c \in Callers :
            (pc[c] = "write_all" /\ res'[c].tag = "Ok")
               => /\ op[c] = "create_server" => res'[c].server.status = "Provisioning"
                  /\ op[c] = "attach_disk"
                       => /\ res'[c].server.status = prev[c].status
                          /\ from_str(files'[file_path(cmd[c].server_id)]).ok
                               => from_str(files'[file_path(cmd[c].server_id)]).server.status
                                     = prev[c].status]_vars

\* attach_disk has returned and the record, now with a disk, has the status that
\* create_server gave the server.
C15_Witness ==
    \E c \in Callers :
        /\ Returned(c, "attach_disk")
        /\ Persisted(cmd[c].server_id)
        /\ Record(cmd[c].server_id).additional_disks # <<>>
        /\ Record(cmd[c].server_id).status = prev[c].status
        /\ \E i \in DOMAIN created :
              created[i].id = cmd[c].server_id /\ created[i].status = prev[c].status

\* seq is the beginning of other.
IsPrefix(seq, other) == Len(seq) <= Len(other) /\ SubSeq(other, 1, Len(seq)) = seq

\* C16 as stated: in every execution each persisted disk list of an id is the
\* previous persisted disk list of that id with disks added at the end.
C16_AppendOnly ==
    [][\A id \in Uuids : IsPrefix(last[file_path(id)], last'[file_path(id)])]_vars

\* C16, amended: a save of attach_disk during whose call no other caller wrote the
\* id leaves the previous persisted disk list with one disk added at the end; and
\* the persisted disk list changes in no other step than the write of a save.
C16_AppendOnlyAlone ==
    [][\A id \in Uuids :
          last'[file_path(id)] # last[file_path(id)]
             => \E c \in Callers :
                   /\ pc[c] = "write_all" /\ pc'[c] = "done" /\ srv[c].id = id
                   /\ (op[c] = "attach_disk" /\ id \notin others[c])
                        => /\ Len(last'[file_path(id)]) = Len(last[file_path(id)]) + 1
                           /\ IsPrefix(last[file_path(id)], last'[file_path(id)])
                           /\ last'[file_path(id)] = res'[c].server.additional_disks]_vars

\* Two attach_disk calls, one after the other, have left a persisted list of two
\* disks, no other caller having written the id.
C16_Witness ==
    \E c \in Callers :
        /\ Returned(c, "attach_disk")
        /\ cmd[c].server_id \notin others[c]
        /\ Len(last[file_path(cmd[c].server_id)]) = 2
        /\ last[file_path(cmd[c].server_id)] = Record(cmd[c].server_id).additional_disks

\* The ids of the servers a result holds.
ResultIds(r) == { r.list[i].id : i \in DOMAIN r.list } \cup
                (IF r.tag \in {"Ok", "Some"} THEN {r.server.id} ELSE {})

\* C17: when save fails during create_server the caller receives the error and save
\* has been called once in the operation; from then on the generated id has no
\* record that parses, and no find_by_id, list_all, list_servers or attach_disk
\* returns a server with that id.
C17_FailedCreate ==
    [][/\ \A id \in failed' \ failed :
             \E c \in Callers :
                /\ op'[c] = "create_server" /\ srv'[c].id = id
                /\ pc'[c] = "done" /\ res'[c] = IoError
                /\ nsave'[c] = 1
                /\ created' = created
       /\ \A id \in failed' :
             /\ exists(id)' => ~from_str(files'[file_path(id)]).ok
             /\ \A d \in Callers : id \notin ResultIds(res'[d]) /\ prev'[d].id # id]_vars

\* The write of a create_server has failed and left a file for the generated id; a
\* later find_by_id of that id has returned the serde_json error.
C17_Witness ==
    \E id \in failed, c \in Callers :
        /\ exists(id)
        /\ op[c] = "find_by_id" /\ cmd[c].server_id = id
        /\ pc[c] = "done" /\ res[c] = SerdeError

\* C18: save is an upsert.  A save(s) that no other write access to the file
\* overlaps leaves the file of s.id holding s and nothing else, whether the file
\* existed or not (the open creates it, or empties it); no other file changes and
\* no file is added for an id that has one; a record is only ever in the file of
\* its own id, so there is one record per id, and the record of an id is the value
\* of the last such save.
C18_Upsert ==
    [][/\ \A c \in Callers :
            LET f == file_path(srv'[c].id)
            IN  /\ (op'[c] = "save" /\ pc'[c] = "write_all" /\ pc[c] # "write_all")
                     => /\ DOMAIN files' = DOMAIN files \cup {f}
                        /\ \A g \in DOMAIN files \ {f} : files'[g] = files[g]
                /\ (op[c] = "save" /\ pc[c] = "write_all" /\ res'[c] = OkUnit /\ opener[f] = c)
                     => /\ files'[f] = to_string_pretty(srv[c])
                        /\ DOMAIN files' = DOMAIN files
                        /\ \A g \in DOMAIN files \ {f} : files'[g] = files[g]
                        /\ stable'[f] = srv[c]
       /\ \A g \in DOMAIN files' :
            (g \notin DOMAIN files \/ files'[g] # files[g] \/ stable'[g] # stable[g])
              => LET r == from_str(files'[g])
                 IN  /\ r.ok => file_path(r.server.id) = g
                     /\ stable'[g] # NoServer => r = [ok |-> TRUE, server |-> stable'[g]]
       /\ \A g \in Uuids : stable'[g] # NoServer => g \in DOMAIN files']_vars

\* A save has replaced a record by a shorter one: a find_by_id had returned the
\* earlier record of the id, with more disks, and the file now holds the saved
\* server only.
C18_Witness ==
    \E c, d \in Callers :
        /\ Returned(c, "save")
        /\ stable[file_path(srv[c].id)] = srv[c]
        /\ files[file_path(srv[c].id)] = to_string_pretty(srv[c])
        /\ op[d] = "find_by_id" /\ pc[d] = "done" /\ res[d].tag = "Some"
        /\ res[d].server.id = srv[c].id
        /\ Len(res[d].server.additional_disks) > Len(srv[c].additional_disks)

\* C19: find_by_id of an id whose file does not exist returns Ok(None) at once, a
\* success value and not an error; it returns Ok(Some(server)) exactly when the
\* file exists and its content parses, and then `server` is the parsed record; a
\* file that exists and does not parse gives the serde_json error.
C19_AbsentIsNone ==
    [][\A c \in Callers :
          LET id == cmd'[c].server_id
          IN  /\ (Idle(c) /\ nops' = nops + 1 /\ op'[c] = "find_by_id")
                   => IF exists(id)
                      THEN pc'[c] = "read_to_string" /\ res'[c] = NoResult
                      ELSE pc'[c] = "done" /\ res'[c] = OkNone
              /\ (op[c] = "find_by_id" /\ pc[c] = "read_to_string" /\ pc'[c] # pc[c])
                   => /\ pc'[c] = "done"
                      /\ exists(id)
                      /\ res'[c] = IF from_str(files[file_path(id)]).ok
                                   THEN OkSome(from_str(files[file_path(id)]).server)
                                   ELSE SerdeError
              /\ (op'[c] = "find_by_id" /\ res'[c].tag = "Some")
                   => /\ res'[c] = res[c] \/ pc[c] = "read_to_string"
                      /\ res'[c].server.id = id]_vars

\* find_by_id of an id that has no file has returned Ok(None) while the store
\* holds the record of another id.
C19_Witness ==
    \E c \in Callers :
        /\ op[c] = "find_by_id" /\ pc[c] = "done" /\ res[c] = OkNone
        /\ ~exists(cmd[c].server_id)
        /\ \E id \in Uuids : Persisted(id)

\* What operation o with command cm returns when run over the map m, the call
\* having generated server id sid and disk id did; a list stands for its elements.
AbstractResult(m, o, cm, sid, did) ==
    IF o = "create_server" THEN Ok(ServerNew(sid, cm.name, cm.cpu, cm.ram, cm.storage))
    ELSE IF o = "attach_disk"
    THEN IF lookup(m, cm.server_id).tag = "Some"
         THEN Ok(AttachTo(lookup(m, cm.server_id).server, Disk(did, cm.size_gb)))
         ELSE NotFound
    ELSE IF o = "find_by_id" THEN lookup(m, cm.server_id)
    ELSE OkList(<<>>)

\* C20: with one call at a time and no filesystem error, every call of
\* create_server, list_servers and attach_disk (and of find_by_id through the port)
\* over the files returns what the same call returns over the abstract map, the
\* generated ids being the same: create_server Ok(Server::new(..)) for an id the map
\* does not hold; attach_disk the looked-up server with the new disk pushed, or
\* "Server not found"; list_servers the values of the map, each once, in some order.
C20_BackendIndependent ==
    [][\A c \in Callers :
          (/\ pc'[c] = "done"
           /\ pc[c] # "done" \/ (Idle(c) /\ nops' = nops + 1)
           /\ faults' = 0)
             => LET o == op'[c]
                    r == res'[c]
                    disks == r.server.additional_disks
                    did == IF disks = <<>> THEN 0 ELSE disks[Len(disks)].id
                IN  /\ o = "list_servers"
                         => /\ r.tag = "List"
                            /\ Range(r.list) = values(store)
                            /\ Len(r.list) = Cardinality(DOMAIN store)
                    /\ o # "list_servers"
                         => r = AbstractResult(store, o, cmd'[c], srv'[c].id, did)
                    /\ o = "create_server" => srv'[c].id \notin DOMAIN store
                    /\ o \in {"list_servers", "find_by_id"} => store' = store
                    /\ o \in {"create_server", "attach_disk"} /\ r.tag = "Ok"
                         => store' = update(store, r.server)]_vars

\* Without a filesystem error create_server, attach_disk and list_servers have run
\* one after the other, and the list returned holds the one server of the map with
\* its disk.
C20_Witness ==
    \E c \in Callers :
        /\ Returned(c, "list_servers")
        /\ faults = 0
        /\ Len(res[c].list) = 1
        /\ Len(res[c].list[1].additional_disks) = 1
        /\ DOMAIN store = {res[c].list[1].id}
        /\ store[res[c].list[1].id] = res[c].list[1]

\* The server a response of kind "object" was made from: the local server of the
\* test, or the server the port call returned to the handler.
Mapped(c) == IF key[c] = NoRequest THEN srv[c] ELSE res[c].server

\* C21: map_to_response preserves the server's id and name, renders the status as
\* the name of its variant, and maps additional_disks to disks one to one: same
\* length, and at each position the disk's id and size_gb.
C21_MapPreserves ==
    \A c \in Callers :
        response[c].kind = "object"
          => LET r == response[c].servers[1]
                 s == Mapped(c)
             IN  /\ r.id = s.id
                 /\ r.name = s.name
                 /\ r.status \in ServerStatus /\ r.status = s.status
                 /\ Len(r.disks) = Len(s.additional_disks)
                 /\ \A i \in DOMAIN s.additional_disks :
                       /\ r.disks[i].id = s.additional_disks[i].id
                       /\ r.disks[i].size_gb = s.additional_disks[i].size_gb

\* A Running server with two disks of different ids and sizes has been mapped.
C21_Witness ==
    /\ pc[1] = "done" /\ response[1].kind = "object"
    /\ srv[1].status = "Running" /\ response[1].servers[1].status = "Running"
    /\ Len(srv[1].additional_disks) = 2
    /\ srv[1].additional_disks[1].id # srv[1].additional_disks[2].id
    /\ srv[1].additional_disks[1].size_gb # srv[1].additional_disks[2].size_gb
    /\ response[1].servers[1].disks[1].size_gb = 100
    /\ response[1].servers[1].disks[2].size_gb = 20

C23_ErrorsPropagate ==
    [][/\ \A c \in Callers :
            /\ nsave'[c] <= 1
            /\ (pc[c] \notin {"idle", "done"} /\ pc'[c] = "done" /\ res'[c].tag = "Err")
                 => /\ pc[c] \in {"File::create", "write_all"}
                         => res'[c] = IoError /\ faults' = faults + 1 /\ nsave'[c] = 1
                    /\ pc[c] = "read_to_string"
                         => /\ res'[c] = SerdeError
                            /\ ~from_str(files[file_path(cmd[c].server_id)]).ok
                            /\ nsave'[c] = 0
                            /\ files' = files
                    /\ pc[c] = "entry" => res'[c] = SerdeError /\ files' = files
            /\ (Idle(c) /\ nops' = nops + 1 /\ pc'[c] = "done" /\ res'[c].tag = "Err")
                 => \/ /\ op'[c] = "create_server"
                       /\ res'[c] = IoError /\ faults' = faults + 1 /\ nsave'[c] = 1
                    \/ /\ op'[c] = "attach_disk"
                       /\ res'[c] = NotFound /\ nsave'[c] = 0 /\ files' = files
            /\ (pc[c] = "done" /\ pc'[c] \notin {"done", "idle"}) => nops' = nops + 1
       /\ faults' # faults
            => \E c \in Callers :
                  /\ pc[c] \in {"File::create", "write_all"} \/ (Idle(c) /\ nops' = nops + 1)
                  /\ pc'[c] = "done" /\ res'[c] = IoError]_vars

\* attach_disk has failed on a record that does not parse: it has returned the
\* serde_json error and has not called save.
C23_Witness ==
    \E c \in Callers :
        /\ op[c] = "attach_disk" /\ pc[c] = "done"
        /\ res[c] = SerdeError
        /\ nsave[c] = 0
        /\ exists(cmd[c].server_id)

\* r is a result of list_all over the directory dir, read without interruption: the
\* serde_json error if some file does not parse, else the parsed servers of all
\* files, each once, in the order the directory yielded them.
IsListAllResult(dir, r) ==
    LET parsed == [f \in DOMAIN dir |-> from_str(dir[f])]
    IN  IF \E f \in DOMAIN dir : ~parsed[f].ok
        THEN r = SerdeError
        ELSE /\ r.tag = "List"
             /\ Len(r.list) = Cardinality(DOMAIN dir)
             /\ Range(r.list) = { parsed[f].server : f \in DOMAIN dir }

\* C24: list_servers returns what list_all returns over the same files, the servers
\* or the error; and no step of list_servers or of find_by_id changes a file.
C24_ListDelegates ==
    [][\A c \in Callers :
          /\ (/\ op'[c] = "list_servers" /\ pc'[c] = "done"
              /\ pc[c] = "entry" \/ (Idle(c) /\ nops' = nops + 1))
               => IsListAllResult(files, res'[c])
          /\ (\/ /\ op[c] \in {"list_servers", "find_by_id"}
                 /\ pc[c] \in {"entry", "read_to_string"}
                 /\ pc'[c] # pc[c] \/ entries'[c] # entries[c]
              \/ /\ op'[c] \in {"list_servers", "find_by_id"}
                 /\ Idle(c) /\ nops' = nops + 1)
               => files' = files /\ stable' = stable /\ last' = last]_vars

\* list_servers has returned the two servers of a store of two records.
C24_Witness ==
    \E c \in Callers :
        /\ Returned(c, "list_servers")
        /\ Len(res[c].list) = 2
        /\ Cardinality(DOMAIN files) = 2
        /\ res[c].list[1].id # res[c].list[2].id

\* C25: the server a successful attach_disk returns has the requested server_id
\* as its id and the name, cpu_cores, ram_gb, storage_gb and status of the record
\* the call read; the disks of that record are at their positions, followed by one
\* more disk; and what the call writes is the serialized form of that server, which
\* is the record when no other caller's write access overlaps.
C25_AttachFrame ==
    [][\A c \in Callers :
          (op[c] = "attach_disk" /\ pc[c] = "write_all" /\ res'[c].tag = "Ok")
            => LET r == res'[c].server
                   f == file_path(cmd[c].server_id)
                   n == Len(prev[c].additional_disks)
               IN  /\ r.id = cmd[c].server_id /\ r.id = prev[c].id
                   /\ r.name = prev[c].name
                   /\ r.cpu_cores = prev[c].cpu_cores
                   /\ r.ram_gb = prev[c].ram_gb
                   /\ r.storage_gb = prev[c].storage_gb
                   /\ r.status = prev[c].status
                   /\ Len(r.additional_disks) = n + 1
                   /\ \A i \in 1..n : r.additional_disks[i] = prev[c].additional_disks[i]
                   /\ r.additional_disks[n + 1].size_gb = cmd[c].size_gb
                   /\ opener[f] = c => from_str(files'[f]) = [ok |-> TRUE, server |-> r]]_vars

\* A second disk has been attached to vm-1: the call has returned, and the record
\* is the server returned.
C25_Witness ==
    \E c \in Callers :
        /\ Returned(c, "attach_disk")
        /\ Len(prev[c].additional_disks) = 1
        /\ res[c].server.name = "vm-1" /\ res[c].server.storage_gb = 40
        /\ Persisted(cmd[c].server_id) /\ Record(cmd[c].server_id) = res[c].server

\* C26: in every interleaving, whenever a write leaves the record of an id with
\* another disk list than the file held before, each disk of its list was built by an attach_disk call for that server id (none comes
\* from create_server), and the list is no longer than the number of disks such
\* calls have built, one per call; no disk built for one id has the id of a disk
\* built for another.
C26_DisksFromAttach ==
    [][/\ \A id \in Uuids :
            last'[file_path(id)] # last[file_path(id)]
              => /\ Range(last'[file_path(id)]) \subseteq made'[id]
                 /\ Len(last'[file_path(id)]) <= Cardinality(made'[id])
       /\ made' # made
            => \A id \in Uuids :
                  /\ \A other \in Uuids \ {id} :
                        { d.id : d \in made'[id] } \cap { d.id : d \in made'[other] } = {}
                  /\ made'[id] # made[id]
                       => \E c \in Callers :
                             /\ op[c] = "attach_disk" /\ cmd[c].server_id = id
                             /\ pc[c] = "read_to_string" /\ pc'[c] = "File::create"
                             /\ Cardinality(made'[id]) = Cardinality(made[id]) + 1
                             /\ made'[id] = made[id] \cup
                                   {srv'[c].additional_disks[Len(srv'[c].additional_disks)]}]_vars

\* Two attach_disk calls for one id have each built a disk and returned Ok, and the
\* record holds one disk, built by one of them.
C26_Witness ==
    \E id \in Uuids :
        /\ Persisted(id)
        /\ Cardinality(made[id]) = 2 /\ Len(attached[id]) = 2
        /\ Len(Record(id).additional_disks) = 1
        /\ Record(id).additional_disks[1] \in made[id]

\* The ids of the disks of a list are pairwise distinct.
DistinctIds(disks) == \A i, j \in DOMAIN disks : i # j => disks[i].id # disks[j].id

\* C27: the id of every disk attach_disk builds is one Uuid::new_v4() has not
\* returned before, so no two disks built, for one server or for two, share an id;
\* and within the disk list of a call's server and of a persisted record the ids
\* are pairwise distinct.
C27_FreshDiskIds ==
    [][/\ made' # made
            => /\ \A id \in Uuids :
                    \A d \in made'[id] \ made[id] : d.id \in issued' \ issued
               /\ \A id, other \in Uuids :
                    \A d \in made'[id], e \in made'[other] :
                       (id # other \/ d # e) => d.id # e.id
       /\ \A c \in Callers :
            srv'[c] # srv[c] => DistinctIds(srv'[c].additional_disks)
       /\ \A f \in Uuids : last'[f] # last[f] => DistinctIds(last'[f])]_vars

\* Two disks have been attached to one server, one after the other, with different
\* ids, and the record holds both.
C27_Witness ==
    \E id \in Uuids :
        /\ Cardinality(made[id]) = 2
        /\ Len(last[file_path(id)]) = 2
        /\ Range(last[file_path(id)]) = made[id]
        /\ last[file_path(id)][1].id # last[file_path(id)][2].id

\* C28: no operation removes a file.  Once create_server has returned Ok for an
\* id, <id>.json exists in every later state, whatever later saves do to its
\* content, so a find_by_id of the id goes on to read the file instead of
\* returning Ok(None), and an attach_disk for it never returns "Server not found".
C28_NeverDeleted ==
    [][\A i \in DOMAIN created :
          LET id == created[i].id
          IN  /\ file_path(id) \in DOMAIN files
              /\ file_path(id) \in DOMAIN files'
              /\ \A c \in Callers :
                    /\ (/\ Idle(c) /\ nops' = nops + 1
                        /\ op'[c] \in {"find_by_id", "attach_disk"}
                        /\ cmd'[c].server_id = id)
                         => pc'[c] = "read_to_string" /\ res'[c] = NoResult
                    /\ (/\ res'[c] # res[c]
                        /\ op'[c] \in {"find_by_id", "attach_disk"}
                        /\ cmd'[c].server_id = id)
                         => res'[c] \notin {OkNone, NotFound}]_vars

\* A server was created, a later attach_disk failed inside its write and left the
\* file torn, and the find_by_id after it returned an error, not Ok(None).
C28_Witness ==
    \E c \in Callers, i \in DOMAIN created :
        /\ op[c] = "find_by_id" /\ pc[c] = "done"
        /\ cmd[c].server_id = created[i].id
        /\ res[c] = SerdeError
        /\ ~from_str(files[file_path(created[i].id)]).ok

\* C29: create_server returns the entity it persisted.  The id is generated by
\* Server::new before save is called, and save writes the file of that id; the Ok
\* the call returns carries the server it saved; a find_by_id of that id that is
\* the next call finds the file holding exactly the returned server, and returns
\* it (as does every find_by_id until an attach_disk for the id builds a disk).
C29_ReturnsPersisted ==
    [][\A c \in Callers :
         /\ (Idle(c) /\ nops' = nops + 1 /\ op'[c] = "create_server")
              => /\ srv'[c].id \in issued' \ issued
                 /\ nsave'[c] = 1
                 /\ \A f \in DOMAIN files' :
                       (f \notin DOMAIN files \/ files'[f] # files[f])
                          => f = file_path(srv'[c].id)
         /\ (op[c] = "create_server" /\ pc[c] = "write_all" /\ res'[c].tag = "Ok")
              => /\ res'[c].server = srv[c]
                 /\ from_str(files'[file_path(srv[c].id)]) = [ok |-> TRUE, server |-> res'[c].server]
         /\ (/\ op[c] = "create_server" /\ pc[c] = "done" /\ res[c].tag = "Ok"
             /\ Idle(c) /\ nops' = nops + 1 /\ op'[c] = "find_by_id"
             /\ cmd'[c].server_id = res[c].server.id)
              => /\ pc'[c] = "read_to_string"
                 /\ from_str(files'[file_path(res[c].server.id)])
                       = [ok |-> TRUE, server |-> res[c].server]
         /\ (op[c] = "find_by_id" /\ pc[c] = "read_to_string")
              => \A i \in DOMAIN created :
                    (created[i].id = cmd[c].server_id /\ made[created[i].id] = {})
                       => res'[c] = OkSome(created[i])]_vars

\* create_server returned a server with a name, and the find_by_id that followed
\* returned the same server.
C29_Witness ==
    \E c \in Callers, i \in DOMAIN created :
        /\ op[c] = "find_by_id" /\ pc[c] = "done" /\ nops = 2
        /\ created[i].name # ""
        /\ res[c] = OkSome(created[i])

\* C30: reads are not stale.  A save that completes leaves its server as the value
\* last written to the file; every value a read returns (find_by_id, the
\* find_by_id inside attach_disk, each entry of list_all) is the value last
\* written to the file at the moment of the read, so it is the value of the last
\* completed save or of a write made after it, never an older one; and a
\* list_all visits the file of every save completed before it started.
C30_ReadsNotStale ==
    [][\A c \in Callers :
         /\ (pc[c] = "write_all" /\ res'[c].tag \in {"Ok", "Unit"})
              => latest'[file_path(srv[c].id)] = srv[c]
         /\ (pc[c] = "read_to_string" /\ res'[c].tag = "Some")
              => res'[c].server = latest[file_path(cmd[c].server_id)]
         /\ (pc[c] = "read_to_string" /\ pc'[c] = "File::create")
              => prev'[c] = latest[file_path(cmd[c].server_id)]
         /\ (pc[c] = "entry" /\ acc'[c] # acc[c])
              => \E e \in entries[c] \ entries'[c] :
                    acc'[c] = Append(acc[c], latest[e])
         /\ (Idle(c) /\ nops' = nops + 1 /\ op'[c] \in {"list_all", "list_servers"})
              => \A id \in DOMAIN store : file_path(id) \in entries'[c]]_vars

\* A server was created and a disk attached to it; the find_by_id that started
\* afterwards returned the server with the disk, not the server as created.
C30_Witness ==
    \E c \in Callers, i \in DOMAIN created :
        /\ op[c] = "find_by_id" /\ pc[c] = "done" /\ res[c].tag = "Some"
        /\ cmd[c].server_id = created[i].id
        /\ Len(attached[created[i].id]) = 1
        /\ res[c].server.additional_disks = attached[created[i].id]
        /\ res[c].server # created[i]

(* ------------------------------ liveness ------------------------------ *)
\* The step an operation under way takes next: each is one filesystem call, which
\* completes or fails.
Continue(c) == save_create(c) \/ save_write(c) \/ find_read(c) \/ list_entry(c)

\* The service under the runtime's scheduling: every task that can take its next
\* step eventually takes it.  Nothing obliges a caller to start an operation.
LiveSpec == Init /\ [][Next]_vars /\ \A c \in Callers : WF_vars(Continue(c))

\* Caller c is inside an operation.
Running(c) == pc[c] \notin {"idle", "done"}

\* C31: every create_server, list_servers and attach_disk call under way
\* eventually returns a result or an error, whatever the other callers do; and
\* each turn of the loop of list_all takes one entry off those still to visit, so
\* no entry is visited twice.
C31_Terminates ==
    /\ \A c \in Callers : Running(c) ~> (pc[c] = "done" /\ res[c].tag # "none")
    /\ [][\A c \in Callers :
            (pc[c] = "entry" /\ (entries'[c] # entries[c] \/ acc'[c] # acc[c] \/ pc'[c] # pc[c]))
               => /\ entries'[c] \subseteq entries[c]
                  /\ Cardinality(entries'[c]) = Cardinality(entries[c]) - 1]_vars

\* A list_servers has returned a server while another caller was between the
\* open and the write of its save.
C31_Witness ==
    \E c, d \in Callers :
        /\ Returned(c, "list_servers") /\ Len(res[c].list) = 1
        /\ pc[d] = "write_all"

(* --------------- list_all over a directory with other entries --------- *)
\* The entry of the storage directory that is no server record: a file whose
\* extension is not json (a backup, a note).
Foreign == 0

\* The server whose record entry e holds, if it holds one: server e for <e>.json,
\* a copy of server 1 for the foreign entry.
DirServer(e) ==
    [ServerNew(IF e = Foreign THEN 1 ELSE e, "vm-1", 2, 4, 40)
        EXCEPT !.additional_disks = << Disk(3, 20) >>]

\* The directories list_all is run over: each of 1.json, 2.json and the foreign
\* entry is absent, holds a record, or holds a record cut short by one byte.
Dirs ==
    { [e \in { e \in {Foreign, 1, 2} : ch[e] # "absent" } |->
          IF ch[e] = "record" THEN to_string_pretty(DirServer(e))
          ELSE TakeBytes(to_string_pretty(DirServer(e)),
                         ByteLen(to_string_pretty(DirServer(e))) - 1)] :
        ch \in [{Foreign, 1, 2} -> {"absent", "record", "cut"}] }

DirInit ==
    /\ files \in Dirs
    /\ issued = {}
    /\ pc = [c \in Callers |-> "idle"]
    /\ op = [c \in Callers |-> ""]
    /\ cmd = [c \in Callers |-> NoCmd]
    /\ srv = [c \in Callers |-> NoServer]
    /\ prev = [c \in Callers |-> NoServer]
    /\ entries = [c \in Callers |-> {}]
    /\ acc = [c \in Callers |-> <<>>]
    /\ res = [c \in Callers |-> NoResult]
    /\ nops = 0
    /\ faults = 0
    /\ created = <<>>
    /\ attached = [id \in Uuids |-> <<>>]
    /\ stable = [id \in Uuids |-> NoServer]
    /\ opener = [id \in Uuids |-> 0]
    /\ nsave = [c \in Callers |-> 0]
    /\ seen = [c \in Callers |-> NoServer]
    /\ others = [c \in Callers |-> {}]
    /\ key = [c \in Callers |-> NoRequest]
    /\ last = [id \in Uuids |-> <<>>]
    /\ failed = {}
    /\ store = << >>
    /\ response = [c \in Callers |-> NoResponse]
    /\ made = [id \in Uuids |-> {}]
    /\ latest = [id \in Uuids |-> NoServer]
    /\ rejection = {}
    /\ storage_dir = "dir"
    /\ repository = "Ok"

\* Callers of list_all over such a directory.
DirNext == \E c \in Callers :
    \/ list_all(c)
    \/ list_entry(c)

DirSpec == DirInit /\ [][DirNext]_vars

\* The .json entries of a directory of Dirs: all but the foreign entry.
JsonEntries(dir) == DOMAIN dir \ {Foreign}

\* C32: list_all takes account of the .json entries only.  When it has returned,
\* the result is the error of a .json entry that does not parse, if there is one,
\* and otherwise the list of the servers parsed from the .json entries, one each:
\* an entry with another extension is not in the list, whatever it holds, and
\* makes no call fail.
C32_JsonOnly ==
    \A c \in Callers :
        (op[c] = "list_all" /\ pc[c] = "done")
          => LET J == JsonEntries(files)
             IN  IF \E e \in J : ~from_str(files[e]).ok
                 THEN res[c] = SerdeError
                 ELSE /\ res[c].tag = "List"
                      /\ Len(res[c].list) = Cardinality(J)
                      /\ Range(res[c].list) = { from_str(files[e]).server : e \in J }

\* list_all has returned the two servers of 1.json and 2.json from a directory
\* whose third entry, not a .json file, holds text that does not parse.
C32_Witness ==
    \E c \in Callers :
        /\ op[c] = "list_all" /\ pc[c] = "done"
        /\ res[c].tag = "List" /\ Len(res[c].list) = 2
        /\ Foreign \in DOMAIN files /\ ~from_str(files[Foreign]).ok

\* C33: create_server has no failure of its own.  Whatever the command, an empty
\* name and zeros included, the call calls save once; it returns an error only
\* from a step of save in which a filesystem call failed, and then that error;
\* otherwise it returns Ok with a server holding the name, cpu, ram and storage of
\* the command, and the file of its id holds that server.
C33_CreateTotal ==
    [][\A c \in Callers :
          (/\ op'[c] = "create_server" /\ pc'[c] = "done"
           /\ \/ Idle(c) /\ nops' = nops + 1
              \/ op[c] = "create_server" /\ pc[c] = "write_all")
            => /\ nsave'[c] = 1
               /\ IF faults' # faults
                  THEN res'[c] = IoError
                  ELSE /\ res'[c].tag = "Ok"
                       /\ res'[c].server.name = cmd'[c].name
                       /\ res'[c].server.cpu_cores = cmd'[c].cpu
                       /\ res'[c].server.ram_gb = cmd'[c].ram
                       /\ res'[c].server.storage_gb = cmd'[c].storage
                       /\ from_str(files'[file_path(res'[c].server.id)])
                             = [ok |-> TRUE, server |-> res'[c].server]]_vars

\* create_server has returned a server made from an empty name and zero cpu, ram
\* and storage, and the file of its id holds it.
C33_Witness ==
    \E c \in Callers :
        /\ Returned(c, "create_server")
        /\ cmd[c] = CreateServerCommand("", 0, 0, 0)
        /\ res[c].server.name = "" /\ res[c].server.cpu_cores = 0
        /\ res[c].server.ram_gb = 0 /\ res[c].server.storage_gb = 0
        /\ Persisted(res[c].server.id) /\ Record(res[c].server.id) = res[c].server

\* C34: a save that fails part-way during attach_disk leaves the record of the id
\* as it was.  With one call at a time, once an attach_disk for an id has built
\* its disk and not returned Ok, a find_by_id of the id returns the server of the
\* last save that succeeded, the server as it was before that attach.
C34_FailedSaveKeepsRecord ==
    [][\A c \in Callers :
          LET id == cmd[c].server_id
          IN  (/\ op[c] = "find_by_id" /\ pc[c] = "read_to_string"
               /\ id \in DOMAIN store
               /\ Cardinality(made[id]) > Len(attached[id]))
                => res'[c] = OkSome(store[id])]_vars

\* C35: every step that changes the directory is a step of one create_server or
\* attach_disk call and changes one file, the file of that call's id: for
\* create_server the id generated by the call, whose file did not exist before the
\* call opened it and holds nothing but what the call wrote, for attach_disk the
\* server_id of the command; every other file is as it was.
C35_WritesOneRecord ==
    [][files' # files
         => \E c \in Callers :
               LET f == file_path(IF op'[c] = "create_server" THEN srv'[c].id
                                  ELSE cmd'[c].server_id)
               IN  /\ pc'[c] # pc[c]
                   /\ op'[c] \in {"create_server", "attach_disk"}
                   /\ DOMAIN files' = DOMAIN files \cup {f}
                   /\ \A g \in DOMAIN files \ {f} : files'[g] = files[g]
                   /\ op'[c] = "attach_disk" => f \in DOMAIN files
                   /\ (op'[c] = "create_server" /\ pc'[c] = "write_all")
                        => /\ f \notin DOMAIN files
                           /\ srv'[c].id \in issued' \ issued
                   /\ (op'[c] = "create_server" /\ pc[c] = "write_all")
                        => files[f] = <<>>]_vars

\* Two servers were created and a disk attached to one of them: its record holds
\* the disk and the record of the other is the server as created.
C35_Witness ==
    \E i, j \in DOMAIN created :
        /\ i # j
        /\ Len(attached[created[i].id]) = 1
        /\ Persisted(created[i].id)
        /\ Record(created[i].id).additional_disks = attached[created[i].id]
        /\ Persisted(created[j].id) /\ Record(created[j].id) = created[j]

\* C36: when two attach_disk calls on one id that read the same record have both
\* returned Ok and no other call is under way, each returned server ends with that
\* call's own new disk, and the record of the id is there with the disk list
\* returned to one of the two.
C36_OneSurvives ==
    \A c, d \in Callers :
        (/\ c # d
         /\ Returned(c, "attach_disk") /\ Returned(d, "attach_disk")
         /\ cmd[c].server_id = cmd[d].server_id
         /\ prev[c] = prev[d]
         /\ \A e \in Callers : ~Running(e))
           => LET id == cmd[c].server_id
                  new(x) == res[x].server.additional_disks[Len(res[x].server.additional_disks)]
              IN  /\ \A x \in {c, d} :
                        /\ res[x].server.additional_disks
                              = Append(prev[x].additional_disks, new(x))
                        /\ new(x) \in made[id] /\ new(x).size_gb = cmd[x].size_gb
                  /\ new(c).id # new(d).id
                  /\ Persisted(id)
                  /\ Record(id).additional_disks
                        \in {res[c].server.additional_disks, res[d].server.additional_disks}

(* --------------------- handle_rejection on any rejection -------------- *)
\* A filter chain has rejected a request with any rejection; nothing else is going on.
RejInit ==
    /\ files = << >>
    /\ issued = {}
    /\ pc = [c \in Callers |-> "idle"]
    /\ op = [c \in Callers |-> ""]
    /\ cmd = [c \in Callers |-> NoCmd]
    /\ srv = [c \in Callers |-> NoServer]
    /\ prev = [c \in Callers |-> NoServer]
    /\ entries = [c \in Callers |-> {}]
    /\ acc = [c \in Callers |-> <<>>]
    /\ res = [c \in Callers |-> NoResult]
    /\ nops = 0
    /\ faults = 0
    /\ created = <<>>
    /\ attached = [id \in Uuids |-> <<>>]
    /\ stable = [id \in Uuids |-> NoServer]
    /\ opener = [id \in Uuids |-> 0]
    /\ nsave = [c \in Callers |-> 0]
    /\ seen = [c \in Callers |-> NoServer]
    /\ others = [c \in Callers |-> {}]
    /\ key = [c \in Callers |-> NoRequest]
    /\ last = [id \in Uuids |-> <<>>]
    /\ failed = {}
    /\ store = << >>
    /\ response = [c \in Callers |-> NoResponse]
    /\ made = [id \in Uuids |-> {}]
    /\ latest = [id \in Uuids |-> NoServer]
    /\ rejection \in Rejections
    /\ storage_dir = "dir"
    /\ repository = "Ok"

\* .recover(handle_rejection): the rejection is given to handle_rejection and the
\* reply it returns is sent
recover ==
    /\ pc[1] = "idle"
    /\ pc' = [pc EXCEPT ![1] = "done"]
    /\ response' = [response EXCEPT ![1] = handle_rejection(rejection)]
    /\ UNCHANGED << files, issued, op, cmd, srv, prev, entries, acc, res, nops, faults,
                    created, attached, stable, opener, nsave, seen, others, key,
                    last, latest, rejection, storage_dir, repository, failed, store, made >>

RejNext == recover

RejSpec == RejInit /\ [][RejNext]_vars

\* C37: every rejection given to handle_rejection is answered with a response whose
\* body is {"error": one of the fixed messages} and whose status is 404 for the
\* not-found rejection, 401 for one with the cause Unauthorized, 413 for one with
\* the cause PayloadTooLarge (and not Unauthorized), and 500 for any other.
C37_RejectionTotal ==
    pc[1] = "done"
      => /\ response[1].kind = "error"
         /\ response[1].error \in FixedMessages
         /\ response[1].status \in {404, 401, 413, 500}
         /\ rejection = {} <=> response[1].status = 404
         /\ Unauthorized \in rejection <=> response[1].status = 401
         /\ (PayloadTooLarge \in rejection /\ Unauthorized \notin rejection)
               <=> response[1].status = 413
         /\ (rejection # {} /\ rejection \cap {Unauthorized, PayloadTooLarge} = {})
               <=> response[1].status = 500
         /\ response[1].error =
              CASE response[1].status = 404 -> "Resource not found"
                [] response[1].status = 401 -> "Invalid or missing API Key"
                [] response[1].status = 413 -> "Payload too large"
                [] OTHER -> "An internal error occurred"

\* A rejection combining a too-large payload with another cause has been answered 413.
C37_Witness ==
    /\ pc[1] = "done"
    /\ rejection = {PayloadTooLarge, "MethodNotAllowed"}
    /\ response[1] = Response(413, "error", <<>>, "Payload too large")

(* ----------------------- JsonServerRepository::new -------------------- *)
\* Before new(path): nothing is at the path ("absent"), or a directory with any
\* entries ("dir"), or something that is not a directory, such as a regular file
\* ("file").
NewInit ==
    /\ \/ storage_dir = "absent" /\ files = << >>
       \/ storage_dir = "dir" /\ files \in Dirs
       \/ storage_dir = "file" /\ files = << >>
    /\ repository = "none"
    /\ issued = {}
    /\ pc = [c \in Callers |-> "idle"]
    /\ op = [c \in Callers |-> ""]
    /\ cmd = [c \in Callers |-> NoCmd]
    /\ srv = [c \in Callers |-> NoServer]
    /\ prev = [c \in Callers |-> NoServer]
    /\ entries = [c \in Callers |-> {}]
    /\ acc = [c \in Callers |-> <<>>]
    /\ res = [c \in Callers |-> NoResult]
    /\ nops = 0
    /\ faults = 0
    /\ created = <<>>
    /\ attached = [id \in Uuids |-> <<>>]
    /\ stable = [id \in Uuids |-> NoServer]
    /\ opener = [id \in Uuids |-> 0]
    /\ nsave = [c \in Callers |-> 0]
    /\ seen = [c \in Callers |-> NoServer]
    /\ others = [c \in Callers |-> {}]
    /\ key = [c \in Callers |-> NoRequest]
    /\ last = [id \in Uuids |-> <<>>]
    /\ failed = {}
    /\ store = << >>
    /\ response = [c \in Callers |-> NoResponse]
    /\ made = [id \in Uuids |-> {}]
    /\ latest = [id \in Uuids |-> NoServer]
    /\ rejection = {}

\* storage_dir.exists(): something is at the path, a directory or not
storage_dir_exists == storage_dir # "absent"

\* Mutant of new: the directory is taken to be there.
new_assumed ==
    /\ repository = "none"
    /\ repository' = "Ok"
    /\ UNCHANGED << files, issued, pc, op, cmd, srv, prev, entries, acc, res, nops,
                    created, attached, stable, opener, nsave, seen, others, key,
                    last, latest, rejection, failed, store, response, made,
                    storage_dir, faults >>

\* JsonServerRepository::new(path): create_dir_all when nothing exists at the path,
\* which makes the directory or fails; then Ok(Self { storage_dir })
new ==
    /\ repository = "none"
    /\ IF storage_dir_exists
       THEN /\ repository' = "Ok"
            /\ UNCHANGED << storage_dir, faults >>
       ELSE \E ok \in BOOLEAN :
               IF ok
               THEN /\ storage_dir' = "dir"
                    /\ repository' = "Ok"
                    /\ UNCHANGED faults
               ELSE /\ faults < MaxFaults
                    /\ faults' = faults + 1
                    /\ repository' = "Err"
                    /\ UNCHANGED storage_dir
    /\ UNCHANGED << files, issued, pc, op, cmd, srv, prev, entries, acc, res, nops,
                    created, attached, stable, opener, nsave, seen, others, key,
                    last, latest, rejection, failed, store, response, made >>

\* new, then callers of list_all on the repository it returned.
NewNext ==
    \/ new
    \/ \E c \in Callers : repository = "Ok" /\ list_all(c)
    \/ \E c \in Callers : list_entry(c)

NewSpec == NewInit /\ [][NewNext]_vars

\* C38 as stated: new creates the directory when it is absent and leaves an
\* existing directory and its records untouched, after a successful new() the
\* directory exists, and list_all on a fresh directory returns the empty list.
C38_DirectoryExists ==
    /\ [][repository' # repository
            => /\ files' = files
               /\ storage_dir = "dir" => storage_dir' = "dir" /\ repository' = "Ok"
               /\ repository' = "Ok" => storage_dir' = "dir"]_vars
    /\ [](\A c \in Callers :
            (pc[c] = "done" /\ op[c] = "list_all" /\ storage_dir = "dir" /\ files = << >>)
               => res[c] = OkList(<<>>))

\* C38, amended: new creates the directory when nothing is at the path (or fails
\* and leaves nothing there), leaves an existing directory and its entries
\* untouched, and succeeds without creating anything when the path names something
\* that is not a directory; so after a successful new() the directory exists
\* unless the path named such a thing before, and list_all on a fresh directory
\* returns the empty list.
C38_NewKeepsDirectory ==
    /\ [][repository' # repository
            => /\ files' = files
               /\ repository = "none" /\ repository' \in {"Ok", "Err"}
               /\ storage_dir = "absent"
                    => storage_dir' = (IF repository' = "Ok" THEN "dir" ELSE "absent")
               /\ storage_dir = "dir" => storage_dir' = "dir" /\ repository' = "Ok"
               /\ storage_dir = "file" => storage_dir' = "file" /\ repository' = "Ok"
               /\ (repository' = "Ok" /\ storage_dir # "file") => storage_dir' = "dir"]_vars
    /\ [](repository = "Ok" => storage_dir \in {"dir", "file"})
    /\ [](\A c \in Callers :
            (pc[c] = "done" /\ op[c] = "list_all" /\ storage_dir = "dir" /\ files = << >>)
               => res[c] = OkList(<<>>))
    /\ [](\A c \in Callers :
            (pc[c] = "done" /\ op[c] = "list_all" /\ storage_dir = "file")
               => res[c] = IoError)

\* new has returned Ok, the directory is there without an entry and a list_all on
\* it has returned the empty list.
C38_Witness ==
    /\ repository = "Ok" /\ storage_dir = "dir" /\ files = << >>
    /\ \E c \in Callers : pc[c] = "done" /\ op[c] = "list_all" /\ res[c] = OkList(<<>>)

====
